---- MODULE Spec2Model ----
(***************************************************************************)
(* A model of the sundown Markdown library: the two-pass driver            *)
(* (sd_markdown_render), the block parser, the inline scanner with its     *)
(* trigger handlers, the reference tables and the work-buffer pools.       *)
(*                                                                         *)
(* Bytes are one-character strings; a C slice (data, size) is a triple     *)
(* (d, p, size): the underlying buffer d, the 0-based offset p of data[0]  *)
(* in it, and the slice length, so that data[-1] and reads past the slice  *)
(* see the same neighbouring bytes as the C code does.                     *)
(*                                                                         *)
(* A C function that mutates the parser and returns a size_t becomes an    *)
(* operator from a parser record st to a parser record whose field ret is  *)
(* the returned value and whose field ob is the buffer the function wrote  *)
(* to.  Fields named g_* are history (ghost) fields: they record what      *)
(* happened during a call and are never read by the modelled code.         *)
(***************************************************************************)
EXTENDS Integers, Sequences, FiniteSets, TLC

VARIABLES
    pc,           \* position of sd_markdown_render
    document,     \* the input bytes
    ext_flags,    \* md->ext_flags, as a set of extension names
    cb_absent,    \* callbacks whose slot in struct sd_callbacks is NULL
    cb_decline,   \* span callbacks that return 0 when invoked
    max_nesting,  \* md->max_nesting
    alloc_fail,   \* which bufnew() of rndr_newbuf fails: [at, persistent]
    text,         \* the staging buffer of pass 1
    beg,          \* the loop position of the pass in progress
    md,           \* the parser (struct sd_markdown) and the output buffer
    buf,          \* a struct buf driven through the functions of buffer.c
    options       \* a struct html_renderopt and the buffer its callbacks write

vars == <<pc, document, ext_flags, cb_absent, cb_decline, max_nesting,
          alloc_fail, text, beg, md, buf, options>>

(***************************************************************************)
(* Bytes.                                                                  *)
(***************************************************************************)
NUL == "NUL"
NL == "\n"
CR == "\r"
TAB == "\t"
SP == " "
BSL == "\\"
DQ == "\""
SQ == "'"
\* the backtick byte 0x60 (a string literal cannot start with it)
BT == "BT"

LowerSeq == << "a","b","c","d","e","f","g","h","i","j","k","l","m",
               "n","o","p","q","r","s","t","u","v","w","x","y","z" >>
UpperSeq == << "A","B","C","D","E","F","G","H","I","J","K","L","M",
               "N","O","P","Q","R","S","T","U","V","W","X","Y","Z" >>
DigitSeq == << "0","1","2","3","4","5","6","7","8","9" >>

Range(s) == { s[k] : k \in 1..Len(s) }
Lower == Range(LowerSeq)
Upper == Range(UpperSeq)
Digit == Range(DigitSeq)
Alpha == Lower \cup Upper

isalnum(c) == c \in Alpha \cup Digit

isalpha(c) == c \in Alpha

\* ispunct of <ctype.h>, C locale
ispunct(c) == c \in { "!", DQ, "#", "$", "%", "&", SQ, "(", ")", "*", "+", ",",
                      "-", ".", "/", ":", ";", "<", "=", ">", "?", "@", "[", BSL,
                      "]", "^", "_", BT, "{", "|", "}", "~" }

tolower(c) == IF c \in Upper
              THEN LowerSeq[CHOOSE k \in 1..26 : UpperSeq[k] = c]
              ELSE c

\* the printable ASCII codes 32..126, in order
AsciiSeq == << SP, "!", DQ, "#", "$", "%", "&", SQ, "(", ")", "*", "+", ",", "-", ".", "/",
               "0","1","2","3","4","5","6","7","8","9", ":", ";", "<", "=", ">", "?", "@",
               "A","B","C","D","E","F","G","H","I","J","K","L","M",
               "N","O","P","Q","R","S","T","U","V","W","X","Y","Z",
               "[", BSL, "]", "^", "_", BT,
               "a","b","c","d","e","f","g","h","i","j","k","l","m",
               "n","o","p","q","r","s","t","u","v","w","x","y","z",
               "{", "|", "}", "~" >>

Ord(c) == IF c = NL THEN 10
          ELSE IF c = CR THEN 13
          ELSE IF c = TAB THEN 9
          ELSE IF \E k \in 1..Len(AsciiSeq) : AsciiSeq[k] = c
               THEN 31 + (CHOOSE k \in 1..Len(AsciiSeq) : AsciiSeq[k] = c)
               ELSE 0

\* data[k] of a buffer d, 0-based; a read outside the buffer yields NUL
B(d, k) == IF k >= 0 /\ k < Len(d) THEN d[k + 1] ELSE NUL

\* the n bytes of d from 0-based offset a
Slice(d, a, n) == [k \in 1..n |-> B(d, a + k - 1)]

\* the least j in i..lim with j = lim or ~Cond(j): a scanning loop
\*   while (j < lim && Cond(j)) j++;
SkipWhile(i, lim, Cond(_)) ==
    IF i >= lim THEN i
    ELSE CHOOSE j \in i..lim : /\ (j = lim \/ ~Cond(j))
                               /\ \A k \in i..(j - 1) : Cond(k)

\* the greatest j in lo..i that a backward loop  while (j > lo && Cond(j)) j--;
\* reaches
SkipBack(i, lo, Cond(_)) ==
    IF i <= lo THEN i
    ELSE CHOOSE j \in lo..i : /\ (j = lo \/ ~Cond(j))
                              /\ \A k \in (j + 1)..i : Cond(k)

_isspace(c) == c = SP \/ c = NL

(***************************************************************************)
(* Program constants.                                                      *)
(***************************************************************************)
REF_TABLE_SIZE == 8
BUFFER_BLOCK == 0
BUFFER_SPAN == 1
BLOCK_POOL_INIT == 4
SPAN_POOL_INIT == 8

\* flags of a list or list item (MKD_LIST_ORDERED, MKD_LI_BLOCK, MKD_LI_END)
MKD_LIST_ORDERED == "ordered"
MKD_LI_BLOCK == "li_block"
MKD_LI_END == "li_end"

\* the functions of the parser call one another through Call
RECURSIVE Call(_, _)

(***************************************************************************)
(* The work-buffer pools (struct stack work_bufs[2]).  A slot of item      *)
(* holds 0 for NULL or the ordinal of the buffer bufnew() allocated.       *)
(***************************************************************************)
Zeros(n) == [k \in 1..n |-> 0]

\* stack_init(st, initial_size)
stack_init(initial_size) ==
    LET n == IF initial_size = 0 THEN 8 ELSE initial_size
    IN [size |-> 0, asize |-> n, item |-> Zeros(n)]

\* stack_grow(st, new_size), realloc succeeding
stack_grow(pool, new_size) ==
    IF pool.asize >= new_size THEN pool
    ELSE [size |-> IF pool.size > new_size THEN new_size ELSE pool.size,
          asize |-> new_size,
          item |-> pool.item \o Zeros(new_size - pool.asize)]

\* stack_push(st, item)
stack_push(pool, it) ==
    LET g == stack_grow(pool, pool.size * 2)
    IN [g EXCEPT !.item[g.size + 1] = it, !.size = g.size + 1]

\* does the n-th bufnew() made by rndr_newbuf return NULL
AllocFails(n) ==
    /\ alloc_fail.at > 0
    /\ \/ n = alloc_fail.at
       \/ alloc_fail.persistent /\ n > alloc_fail.at

\* rndr_newbuf(rndr, type): ret = 1 for a buffer, 0 for NULL.  The buffer
\* handed out is empty (a reused one has its size reset to 0).
\* history of the pools: the highest size of each pool and the highest
\* sum of the two sizes
PoolMarks(st, type) ==
    [st EXCEPT !.g_hw[type] = IF st.work_bufs[type].size > @
                              THEN st.work_bufs[type].size ELSE @,
               !.g_maxdepth = IF st.work_bufs[BUFFER_SPAN].size
                                   + st.work_bufs[BUFFER_BLOCK].size > @
                              THEN st.work_bufs[BUFFER_SPAN].size
                                   + st.work_bufs[BUFFER_BLOCK].size
                              ELSE @]

\* a rndr_newbuf that never looks for a buffer to reuse (a mutation)
rndr_newbuf_always(st, type) ==
    LET n == st.nalloc + 1
    IN PoolMarks([st EXCEPT !.nalloc = n, !.ret = 1,
                            !.bufsize = (n :> 0) @@ @,
                            !.work_bufs[type] = stack_push(st.work_bufs[type], n)], type)

rndr_newbuf(st, type) ==
    LET pool == st.work_bufs[type]
    IN IF pool.size < pool.asize /\ pool.item[pool.size + 1] # 0
       THEN PoolMarks([st EXCEPT !.work_bufs[type].size = pool.size + 1, !.ret = 1,
                                 !.bufsize[pool.item[pool.size + 1]] = 0], type)
       ELSE LET n == st.nalloc + 1
            IN IF AllocFails(n)
               THEN [st EXCEPT !.nalloc = n, !.ret = 0, !.g_nfail = @ + 1]
               ELSE PoolMarks([st EXCEPT !.nalloc = n, !.ret = 1,
                                         !.bufsize = (n :> 0) @@ @,
                                         !.work_bufs[type] = stack_push(pool, n)], type)

\* a rndr_popbuf that leaves the pool as it is
rndr_popbuf_keep(st, type) == st

\* rndr_popbuf(rndr, type)
rndr_popbuf(st, type) ==
    [st EXCEPT !.work_bufs[type].size = st.work_bufs[type].size - 1]

\* span_stack.size + block_stack.size
PoolDepth(st) == st.work_bufs[BUFFER_SPAN].size + st.work_bufs[BUFFER_BLOCK].size

\* a guard that lets one more level through
NestingGuardLate(st) == PoolDepth(st) > max_nesting + 1

\* no guard at all
NestingGuardOff(st) == FALSE

\* the recursion guard at the head of parse_inline and parse_block
NestingGuard(st) == PoolDepth(st) > max_nesting

(***************************************************************************)
(* The renderer (struct sd_callbacks).  A callback that is present and     *)
(* renders appends a rendering of its arguments, bracketed by markers      *)
(* that are single elements of the output; a span callback listed in       *)
(* cb_decline writes nothing and returns 0.                                *)
(***************************************************************************)
has_cb(name) == name \notin cb_absent

Open(name) == << "<" \o name \o ">" >>
Close(name) == << "</" \o name \o ">" >>

\* the callbacks sd_markdown_render invokes itself, once per render, and
\* the footnotes callback of parse_footnote_list
Lifecycle == {"doc_header", "footnotes", "doc_footer", "outline"}

\* the history of callbacks, by kind: a lifecycle callback by its name, a
\* run of block, span and low-level callbacks as one "body"
Life(l, name) ==
    IF name \in Lifecycle THEN Append(l, name)
    ELSE IF Len(l) > 0 /\ l[Len(l)] = "body" THEN l
    ELSE Append(l, "body")

\* a block-level, low-level or lifecycle callback: void
CallVoid(st, name, body) ==
    [st EXCEPT !.ob = @ \o Open(name) \o body \o Close(name),
               !.ncb = @ + 1,
               !.g_calls = @ \cup {name},
               !.g_life = Life(@, name)]

\* a span-level callback: returns int, in ret
CallSpan(st, name, body) ==
    IF name \in cb_decline
    THEN [st EXCEPT !.ret = 0, !.ncb = @ + 1, !.g_decl = name,
                    !.g_calls = @ \cup {name},
                    !.g_life = Life(@, name)]
    ELSE [st EXCEPT !.ob = @ \o Open(name) \o body \o Close(name),
                    !.ret = 1, !.ncb = @ + 1, !.g_decl = "",
                    !.g_calls = @ \cup {name},
                    !.g_life = Life(@, name)]

\* bufput(ob, data, len) and bufputc(ob, c) on the buffer being written
bufput(st, bytes) == [st EXCEPT !.ob = @ \o bytes]

\* normal_text(ob, text) when the callback is set, else bufput: the way
\* parse_inline and char_escape emit plain text
EmitText(st, bytes) ==
    IF has_cb("normal_text")
    THEN [st EXCEPT !.ob = @ \o bytes, !.ncb = @ + 1,
                    !.g_calls = @ \cup {"normal_text"},
                    !.g_text = @ + Len(bytes),
                    !.g_life = Life(@, "normal_text")]
    ELSE [st EXCEPT !.ob = @ \o bytes, !.g_text = @ + Len(bytes)]

\* md->active_char[c], as set up by sd_markdown_new
active_char(c) ==
    IF c \in {"*", "_"} /\ (has_cb("emphasis") \/ has_cb("double_emphasis")
                            \/ has_cb("triple_emphasis"))
    THEN "emphasis"
    ELSE IF c = "~" /\ "strikethrough" \in ext_flags
            /\ (has_cb("emphasis") \/ has_cb("double_emphasis") \/ has_cb("triple_emphasis"))
    THEN "emphasis"
    ELSE IF c = "+" /\ "ins" \in ext_flags
            /\ (has_cb("emphasis") \/ has_cb("double_emphasis") \/ has_cb("triple_emphasis"))
    THEN "emphasis"
    ELSE IF c = BT /\ has_cb("codespan") THEN "codespan"
    ELSE IF c = NL /\ has_cb("linebreak") THEN "linebreak"
    ELSE IF c = "[" /\ (has_cb("image") \/ has_cb("link")) THEN "link"
    ELSE IF c = "<" THEN "langle"
    ELSE IF c = BSL THEN "escape"
    ELSE IF c = "&" THEN "entity"
    ELSE IF c = ":" /\ "autolink" \in ext_flags THEN "autolink_url"
    ELSE IF c = "@" /\ "autolink" \in ext_flags THEN "autolink_email"
    ELSE IF c = "w" /\ "autolink" \in ext_flags THEN "autolink_www"
    ELSE IF c = "^" /\ "superscript" \in ext_flags THEN "superscript"
    ELSE "none"

(***************************************************************************)
(* Inline parsing: helpers that only read the input.                       *)
(***************************************************************************)

\* the first k in a..(b-1) with data[k] = c, or 0: the value of tmp_i after
\* a loop that records the first delimiter it passes
FirstAt(d, p, a, b, c) ==
    IF \E k \in a..(b - 1) : B(d, p + k) = c
    THEN CHOOSE k \in a..(b - 1) : /\ B(d, p + k) = c
                                   /\ \A m \in a..(k - 1) : B(d, p + m) # c
    ELSE 0

RECURSIVE find_emph_bt(_, _, _, _, _, _, _, _)
\* the loop of find_emph_char that looks for the closing backtick run:
\*   while (i < size && bt < span_nb) { ... i++; }
find_emph_bt(d, p, size, c, i, bt, tmp_i, span_nb) ==
    IF i < size /\ bt < span_nb
    THEN find_emph_bt(d, p, size, c, i + 1,
                      IF B(d, p + i) = BT THEN bt + 1 ELSE 0,
                      IF tmp_i = 0 /\ B(d, p + i) = c THEN i ELSE tmp_i,
                      span_nb)
    ELSE [i |-> i, tmp_i |-> tmp_i]

\* find_emph_char from the head of its outer loop, at position i0
find_emph_loop(d, p, size, c, i0) ==
    IF i0 >= size THEN 0
    ELSE
    LET i == SkipWhile(i0, size, LAMBDA k : B(d, p + k) \notin {c, BT, "["})
    IN IF i = size THEN 0
       ELSE IF B(d, p + i) = c THEN i
       ELSE IF i # 0 /\ B(d, p + i - 1) = BSL
            THEN Call("find_emph_loop", << d, p, size, c, i + 1 >>)
       ELSE IF B(d, p + i) = BT
            THEN LET j == SkipWhile(i, size, LAMBDA k : B(d, p + k) = BT)
                 IN IF j >= size THEN 0
                    ELSE LET r == find_emph_bt(d, p, size, c, j, 0, 0, j - i)
                         IN IF r.i >= size THEN r.tmp_i
                            ELSE Call("find_emph_loop", << d, p, size, c, r.i >>)
       ELSE \* data[i] == '[': skipping a link
            LET j1 == SkipWhile(i + 1, size, LAMBDA k : B(d, p + k) # "]")
                t1 == FirstAt(d, p, i + 1, j1, c)
                j2 == SkipWhile(j1 + 1, size, LAMBDA k : B(d, p + k) \in {SP, NL})
            IN IF j2 >= size THEN t1
               ELSE IF B(d, p + j2) \notin {"[", "("}
                    THEN IF t1 # 0 THEN t1
                         ELSE Call("find_emph_loop", << d, p, size, c, j2 >>)
               ELSE LET cc == IF B(d, p + j2) = "[" THEN "]" ELSE ")"
                        j3 == SkipWhile(j2 + 1, size, LAMBDA k : B(d, p + k) # cc)
                        t2 == IF t1 # 0 THEN t1 ELSE FirstAt(d, p, j2 + 1, j3, c)
                    IN IF j3 >= size THEN t2
                       ELSE Call("find_emph_loop", << d, p, size, c, j3 + 1 >>)

\* find_emph_char(data, size, c): looks for the next emph char, skipping
\* other constructs; 0 when there is none
find_emph_char(d, p, size, c) == Call("find_emph_loop", << d, p, size, c, 1 >>)

\* is_mail_autolink(data, size)
is_mail_autolink(d, p, size) ==
    LET ok(k) == isalnum(B(d, p + k)) \/ B(d, p + k) \in {"@", "-", ".", "_"}
        i == SkipWhile(0, size, ok)
        nb == Cardinality({k \in 0..(i - 1) : B(d, p + k) = "@"})
    IN IF i < size /\ B(d, p + i) = ">" /\ nb = 1 THEN i + 1 ELSE 0

RECURSIVE tag_uri_end(_, _, _, _)
\* the loop of tag_length that completes the autolink test
tag_uri_end(d, p, size, i) ==
    IF i >= size THEN i
    ELSE IF B(d, p + i) = BSL THEN tag_uri_end(d, p, size, i + 2)
    ELSE IF B(d, p + i) \in {">", SQ, DQ, SP, NL} THEN i
    ELSE tag_uri_end(d, p, size, i + 1)

\* tag_length(data, size, &autolink): [len, autolink], autolink one of
\* "not" (MKDA_NOT_AUTOLINK), "normal" (MKDA_NORMAL), "email" (MKDA_EMAIL)
tag_length(d, p, size) ==
    IF size < 3 \/ B(d, p) # "<" THEN [len |-> 0, autolink |-> "not"]
    ELSE
    LET i0 == IF B(d, p + 1) = "/" THEN 2 ELSE 1
    IN IF ~isalnum(B(d, p + i0)) THEN [len |-> 0, autolink |-> "not"]
       ELSE
       LET i1 == SkipWhile(i0, size,
                   LAMBDA k : isalnum(B(d, p + k)) \/ B(d, p + k) \in {".", "+", "-"})
           mail == IF i1 > 1 /\ B(d, p + i1) = "@"
                   THEN Call("is_mail_autolink", << d, p + i1, size - i1 >>) ELSE 0
       IN IF mail # 0 THEN [len |-> i1 + mail, autolink |-> "email"]
          ELSE
          LET isuri == i1 > 2 /\ B(d, p + i1) = ":"
              i2 == IF isuri THEN i1 + 1 ELSE i1
              tagend(from) ==
                  LET e == SkipWhile(from, size, LAMBDA k : B(d, p + k) # ">")
                  IN [len |-> IF e >= size THEN 0 ELSE e + 1, autolink |-> "not"]
          IN IF i2 >= size \/ ~isuri THEN tagend(i2)
             ELSE LET i3 == tag_uri_end(d, p, size, i2)
                  IN IF i3 >= size THEN [len |-> 0, autolink |-> "normal"]
                     ELSE IF i3 > i2 /\ B(d, p + i3) = ">"
                          THEN [len |-> i3 + 1, autolink |-> "normal"]
                     ELSE tagend(i3)

\* unscape_text(ob, src): the bytes it appends to ob
unscape_text(src, i0) ==
    IF i0 >= Len(src) THEN << >>
    ELSE LET i == SkipWhile(i0, Len(src), LAMBDA k : B(src, k) # BSL)
             run == Slice(src, i0, i - i0)
         IN IF i + 1 >= Len(src) THEN run
            ELSE run \o << B(src, i + 1) >> \o Call("unscape_text", << src, i + 2 >>)

(***************************************************************************)
(* Inline parsing: the scanner and its trigger handlers.                   *)
(***************************************************************************)
Ret(st, v) == [st EXCEPT !.ret = v]

\* the decimal digits of n, as printf("%d") writes them
RECURSIVE Dec(_)
Dec(n) == IF n < 10 THEN << DigitSeq[n + 1] >>
          ELSE Append(Dec(n \div 10), DigitSeq[(n % 10) + 1])

Max(a, b) == IF a >= b THEN a ELSE b
Min(a, b) == IF a <= b THEN a ELSE b

\* s without its trailing bytes equal to c:
\*   while (ob->size && ob->data[ob->size - 1] == c) ob->size--;
RStrip(s, c) ==
    LET n == CHOOSE n \in 0..Len(s) : /\ (n = 0 \/ s[n] # c)
                                      /\ \A k \in (n + 1)..Len(s) : s[k] = c
    IN SubSeq(s, 1, n)

\* a loop tail that resumes after the trigger byte without emitting it
InlineAdvanceSkip(i, ret) ==
    IF ret = 0 THEN [i |-> i + 1, end |-> i + 1]
    ELSE [i |-> i + ret, end |-> i + ret]

\* the position and the scan start of parse_inline after a handler returned
\* ret at trigger position i:
\*   if (!end) end = i + 1; else { i += end; end = i; }
InlineAdvance(i, ret) ==
    IF ret = 0 THEN [i |-> i, end |-> i + 1]
    ELSE [i |-> i + ret, end |-> i + ret]


\* the body of parse_inline's loop from  while (i < size),  with the scan
\* start end.  acct counts the bytes handed out as text or reported as
\* consumed so far, ld is the position of the last dispatch (ghosts).
inline_loop(st, d, p, size, i, end, acct, ld) ==
    IF i >= size
    THEN [st EXCEPT !.g_acct_bad = @ \/ acct # size]
    ELSE
    LET e1 == SkipWhile(end, size, LAMBDA k : active_char(B(d, p + k)) = "none")
        st1 == EmitText(st, Slice(d, p + i, e1 - i))
        acct1 == acct + (e1 - i)
    IN IF e1 >= size
       THEN [st1 EXCEPT !.g_acct_bad = @ \/ acct1 # size]
       ELSE
       LET r == Call("dispatch", << active_char(B(d, p + e1)),
                                    [st1 EXCEPT !.g_decl = "",
                                                !.g_ilboff = @ \/ (st1.g_linkdepth > 0 /\ ~st1.ilb)],
                                    d, p + e1, e1, size - e1 >>)
           dirty == r.g_decl # "" /\ (r.ret # 0 \/ r.ob # st1.ob)
           r1 == [r EXCEPT !.g_dirty = IF dirty THEN @ \cup {r.g_decl} ELSE @,
                           !.g_clean = IF r.g_decl # "" /\ ~dirty
                                       THEN @ \cup {r.g_decl} ELSE @,
                           !.g_decl = "",
                           !.g_redispatch = @ \/ (e1 = ld),
                           !.g_ret0 = @ \/ (r.ret = 0),
                           !.g_retn = @ \/ (r.ret > 0),
                           !.g_over = @ \/ (r.ret > size - e1)]
           adv == InlineAdvance(e1, r.ret)
           acct2 == acct1 + Min(r.ret, size - e1)
       IN IF adv.end <= end
          THEN [r1 EXCEPT !.g_spin = TRUE]
          ELSE Call("inline_loop", << r1, d, p, size, adv.i, adv.end, acct2, e1 >>)

\* parse_inline(ob, rndr, data, size)
parse_inline(st, d, p, size) ==
    LET r == IF NestingGuard(st)
             THEN st
             ELSE Call("inline_loop", << [st EXCEPT !.g_maxdesc = Max(@, PoolDepth(st))],
                                         d, p, size, 0, 0, 0, 0 - 1 >>)
    IN IF PoolDepth(st) > max_nesting
       THEN [r EXCEPT !.g_tripped = TRUE,
                      !.g_guardwrote = @ \/ r.ob # st.ob \/ r.ncb # st.ncb]
       ELSE r

\* the common tail of the emphasis parsers: render data[0..n) inline into a
\* span work buffer, hand it to the callback, return won when it accepts
EmphRender(st, d, p, n, name, won) ==
    LET a == Call("rndr_newbuf", << st, BUFFER_SPAN >>)
    IN IF a.ret = 0 THEN Ret(a, 0)
       ELSE LET w == Call("parse_inline", << [a EXCEPT !.ob = << >>], d, p, n >>)
                r == CallSpan([w EXCEPT !.ob = st.ob], name, w.ob)
            IN Ret(rndr_popbuf(r, BUFFER_SPAN), IF r.ret # 0 THEN won ELSE 0)

emph1_loop(st, d, p, size, c, i) ==
    IF i >= size THEN Ret(st, 0)
    ELSE
    LET len == Call("find_emph_char", << d, p + i, size - i, c >>)
        j == i + len
    IN IF len = 0 THEN Ret(st, 0)
       ELSE IF j >= size THEN Ret(st, 0)
       ELSE IF B(d, p + j) = c /\ ~_isspace(B(d, p + j - 1))
            THEN IF "no_intra_emphasis" \in ext_flags
                    /\ j + 1 < size /\ isalnum(B(d, p + j + 1))
                 THEN Call("emph1_loop", << st, d, p, size, c, j >>)
                 ELSE \* history: the closing delimiter follows a backslash
                      Call("EmphRender", << [st EXCEPT !.g_escclose = @ \/ B(d, p + j - 1) = BSL],
                                            d, p, j, "emphasis", j + 1 >>)
       ELSE Call("emph1_loop", << st, d, p, size, c, j >>)

\* parse_emph1(ob, rndr, data, size, c)
parse_emph1(st, d, p, size, c) ==
    IF ~has_cb("emphasis") THEN Ret(st, 0)
    ELSE Call("emph1_loop", << st, d, p, size, c,
                               IF size > 1 /\ B(d, p) = c /\ B(d, p + 1) = c THEN 1 ELSE 0 >>)

\* the callback parse_emph2 renders with
Emph2Method(c) == IF c = "+" THEN "ins"
                  ELSE IF c = "~" THEN "strikethrough"
                  ELSE "double_emphasis"

emph2_loop(st, d, p, size, c, i) ==
    IF i >= size THEN Ret(st, 0)
    ELSE
    LET len == Call("find_emph_char", << d, p + i, size - i, c >>)
        j == i + len
    IN IF len = 0 THEN Ret(st, 0)
       ELSE IF j + 1 < size /\ B(d, p + j) = c /\ B(d, p + j + 1) = c
               /\ j # 0 /\ ~_isspace(B(d, p + j - 1))
            THEN Call("EmphRender", << st, d, p, j, Emph2Method(c), j + 2 >>)
       ELSE Call("emph2_loop", << st, d, p, size, c, j + 1 >>)

\* parse_emph2(ob, rndr, data, size, c)
parse_emph2(st, d, p, size, c) ==
    IF ~has_cb(Emph2Method(c)) THEN Ret(st, 0)
    ELSE Call("emph2_loop", << st, d, p, size, c, 0 >>)

emph3_loop(st, d, p, size, c, i) ==
    IF i >= size THEN Ret(st, 0)
    ELSE
    LET len == Call("find_emph_char", << d, p + i, size - i, c >>)
        j == i + len
    IN IF len = 0 THEN Ret(st, 0)
       ELSE IF B(d, p + j) # c \/ _isspace(B(d, p + j - 1))
            THEN Call("emph3_loop", << st, d, p, size, c, j >>)
       ELSE IF j + 2 < size /\ B(d, p + j + 1) = c /\ B(d, p + j + 2) = c
               /\ has_cb("triple_emphasis")
            THEN Call("EmphRender", << st, d, p, j, "triple_emphasis", j + 3 >>)
       ELSE IF j + 1 < size /\ B(d, p + j + 1) = c
            THEN LET r == Call("parse_emph1", << st, d, p - 2, size + 2, c >>)
                 IN IF r.ret = 0 THEN r ELSE Ret(r, r.ret - 2)
       ELSE LET r == Call("parse_emph2", << st, d, p - 1, size + 1, c >>)
            IN IF r.ret = 0 THEN r ELSE Ret(r, r.ret - 1)

\* parse_emph3(ob, rndr, data, size, c)
parse_emph3(st, d, p, size, c) == Call("emph3_loop", << st, d, p, size, c, 0 >>)

\* char_emphasis(ob, rndr, data, offset, size)
char_emphasis(st0, d, p, offset, size) ==
    LET c == B(d, p)
        plus(r, n) == IF r.ret = 0 THEN r ELSE Ret(r, r.ret + n)
        rejected == "no_intra_emphasis" \in ext_flags
                    /\ offset > 0 /\ ~_isspace(B(d, p - 1)) /\ B(d, p - 1) # ">"
        \* history: under MKDEXT_NO_INTRA_EMPHASIS, whether the opener was
        \* rejected and whether the byte before it is alphanumeric
        st == IF "no_intra_emphasis" \in ext_flags
              THEN [st0 EXCEPT !.g_intra = @ \cup {<< rejected,
                                                     offset > 0 /\ isalnum(B(d, p - 1)) >>}]
              ELSE st0
    IN IF rejected
       THEN Ret(st, 0)
       ELSE IF size > 2 /\ B(d, p + 1) # c
       THEN IF c = "+" \/ c = "~" \/ _isspace(B(d, p + 1))
            THEN Ret(st, 0)
            ELSE plus(Call("parse_emph1", << st, d, p + 1, size - 1, c >>), 1)
       ELSE IF size > 3 /\ B(d, p + 1) = c /\ B(d, p + 2) # c
       THEN IF _isspace(B(d, p + 2))
            THEN Ret(st, 0)
            ELSE plus(Call("parse_emph2", << st, d, p + 2, size - 2, c >>), 2)
       ELSE IF size > 4 /\ B(d, p + 1) = c /\ B(d, p + 2) = c /\ B(d, p + 3) # c
       THEN IF c = "+" \/ c = "~" \/ _isspace(B(d, p + 3))
            THEN Ret(st, 0)
            ELSE plus(Call("parse_emph3", << st, d, p + 3, size - 3, c >>), 3)
       ELSE Ret(st, 0)

\* char_linebreak(ob, rndr, data, offset, size)
char_linebreak(st, d, p, offset, size) ==
    IF offset < 2 \/ B(d, p - 1) # SP \/ B(d, p - 2) # SP
    THEN Ret(st, 0)
    ELSE LET r == CallSpan([st EXCEPT !.ob = RStrip(@, SP)], "linebreak", << >>)
         IN Ret(r, IF r.ret # 0 THEN 1 ELSE 0)

RECURSIVE codespan_end(_, _, _, _, _, _)
\* the loop of char_codespan that finds the next delimiter:
\*   for (end = nb; end < size && i < nb; end++) ...
codespan_end(d, p, size, nb, end, i) ==
    IF end < size /\ i < nb
    THEN codespan_end(d, p, size, nb, end + 1, IF B(d, p + end) = BT THEN i + 1 ELSE 0)
    ELSE [end |-> end, i |-> i]

\* char_codespan(ob, rndr, data, offset, size)
char_codespan(st, d, p, offset, size) ==
    LET nb == SkipWhile(0, size, LAMBDA k : B(d, p + k) = BT)
        e == codespan_end(d, p, size, nb, nb, 0)
    IN IF e.i < nb /\ e.end >= size THEN Ret(st, 0)
       ELSE
       LET f_begin == SkipWhile(nb, e.end, LAMBDA k : B(d, p + k) = SP)
           f_end == SkipBack(e.end - nb, nb, LAMBDA k : B(d, p + k - 1) = SP)
           \* history: the delimiter found is the head of a longer run
           s1 == [st EXCEPT !.g_longclose = @ \/ (e.end < size /\ B(d, p + e.end) = BT)]
           r == IF f_begin < f_end
                THEN CallSpan(s1, "codespan", Slice(d, p + f_begin, f_end - f_begin))
                ELSE CallSpan(s1, "codespan", << >>)
       IN Ret(r, IF r.ret = 0 THEN 0 ELSE e.end)

escape_chars == { BSL, BT, "*", "_", "{", "}", "[", "]", "(", ")", "#", "+", "-",
                  ".", "!", ":", "|", "&", "<", ">", "^", "~", "$" }

\* char_escape(ob, rndr, data, offset, size)
char_escape(st, d, p, offset, size) ==
    IF size > 1
    THEN IF B(d, p + 1) \notin escape_chars
         THEN Ret(st, 0)
         ELSE Ret(EmitText(st, << B(d, p + 1) >>), 2)
    ELSE IF size = 1 THEN Ret(bufput(st, << B(d, p) >>), 2)
    ELSE Ret(st, 2)

\* char_entity(ob, rndr, data, offset, size)
char_entity(st, d, p, offset, size) ==
    LET e0 == IF 1 < size /\ B(d, p + 1) = "#" THEN 2 ELSE 1
        e1 == SkipWhile(e0, size, LAMBDA k : isalnum(B(d, p + k)))
    IN IF e1 < size /\ B(d, p + e1) = ";"
       THEN Ret(IF has_cb("entity")
                THEN CallVoid(st, "entity", Slice(d, p, e1 + 1))
                ELSE bufput(st, Slice(d, p, e1 + 1)),
                e1 + 1)
       ELSE Ret(st, 0)

\* char_langle_tag(ob, rndr, data, offset, size)
char_langle_tag(st, d, p, offset, size) ==
    LET t == Call("tag_length", << d, p, size >>)
        end == t.len
    IN IF end > 2
       THEN IF has_cb("autolink") /\ t.autolink # "not"
            THEN LET a == Call("rndr_newbuf", << st, BUFFER_SPAN >>)
                 IN IF a.ret = 0 THEN Ret(a, 0)
                    ELSE LET r == CallSpan(a, "autolink",
                                       Call("unscape_text", << Slice(d, p + 1, end - 2), 0 >>))
                         IN Ret(rndr_popbuf(r, BUFFER_SPAN),
                                IF r.ret = 0 THEN 0 ELSE end)
            ELSE IF has_cb("raw_html_tag")
            THEN LET r == CallSpan(st, "raw_html_tag", Slice(d, p, end))
                 IN Ret(r, IF r.ret = 0 THEN 0 ELSE end)
            ELSE Ret(st, 0)
       ELSE Ret(st, 0)

(***************************************************************************)
(* The reference tables.  An id is the 32-bit hash of the key, kept as     *)
(* the pair of its 16-bit halves <<hi, lo>>.                               *)
(***************************************************************************)
HALF == 65536

RECURSIVE hash_loop(_, _, _)
\* hash = tolower(c) + (hash << 6) + (hash << 16) - hash, modulo 2^32
hash_loop(name, k, h) ==
    IF k > Len(name) THEN h
    ELSE LET c == Ord(tolower(name[k]))
             lo63 == h[2] * 63 + c
         IN hash_loop(name, k + 1,
                      << (h[1] * 63 + h[2] + (lo63 \div HALF)) % HALF, lo63 % HALF >>)

\* hash_link_ref(link_ref, length)
hash_link_ref(name) == hash_loop(name, 1, << 0, 0 >>)

\* id % REF_TABLE_SIZE
Bucket(id) == id[2] % REF_TABLE_SIZE

\* an add_link_ref that links the new entry at the tail of its bucket
add_link_ref_tail(refs, ref) ==
    [refs EXCEPT ![Bucket(ref.id)] = @ \o << ref >>]

\* add_link_ref(references, name, name_size), with the link and the title
\* is_ref stores in the new entry
add_link_ref(refs, ref) ==
    [refs EXCEPT ![Bucket(ref.id)] = << ref >> \o @]

\* find_link_ref(references, name, length): the entry, or the empty sequence
find_link_ref(refs, name) ==
    LET hash == hash_link_ref(name)
        chain == refs[Bucket(hash)]
    IN IF \E k \in 1..Len(chain) : chain[k].id = hash
       THEN << chain[CHOOSE k \in 1..Len(chain) :
                        /\ chain[k].id = hash
                        /\ \A m \in 1..(k - 1) : chain[m].id # hash] >>
       ELSE << >>

\* find_footnote_ref(list, name, length): the index in the list, or 0
find_footnote_ref(list, name) ==
    LET hash == hash_link_ref(name)
    IN IF \E k \in 1..Len(list) : list[k].id = hash
       THEN CHOOSE k \in 1..Len(list) : /\ list[k].id = hash
                                        /\ \A m \in 1..(k - 1) : list[m].id # hash
       ELSE 0

(***************************************************************************)
(* The bare-autolink scanners of autolink.c, which is not among the        *)
(* sources: modelled from their contract (matched length, rewind, link).   *)
(***************************************************************************)
NoMatch == [len |-> 0, rewind |-> 0, link |-> << >>]

\* sd_autolink__www(&rewind, link, data, offset, size, 0)
sd_autolink__www(d, p, offset, size) ==
    IF offset > 0 /\ ~ispunct(B(d, p - 1)) /\ ~_isspace(B(d, p - 1)) THEN NoMatch
    ELSE IF size < 5 \/ Slice(d, p, 4) # << "w", "w", "w", "." >> THEN NoMatch
    ELSE IF ~isalnum(B(d, p + 4)) THEN NoMatch
    ELSE LET e == SkipWhile(4, size, LAMBDA k : ~_isspace(B(d, p + k)))
         IN [len |-> e, rewind |-> 0, link |-> Slice(d, p, e)]

\* sd_autolink__url(&rewind, link, data, offset, size, 0)
sd_autolink__url(d, p, offset, size) ==
    IF size < 4 \/ B(d, p + 1) # "/" \/ B(d, p + 2) # "/" THEN NoMatch
    ELSE LET rewind == SkipWhile(0, offset, LAMBDA k : isalpha(B(d, p - k - 1)))
             scheme == Slice(d, p - rewind, rewind)
         IN IF scheme \notin { << "h", "t", "t", "p" >>, << "f", "t", "p" >> }
               \/ ~isalnum(B(d, p + 3))
            THEN NoMatch
            ELSE LET e == SkipWhile(3, size, LAMBDA k : ~_isspace(B(d, p + k)))
                 IN [len |-> e, rewind |-> rewind,
                     link |-> Slice(d, p - rewind, e + rewind)]

\* sd_autolink__email(&rewind, link, data, offset, size, 0)
sd_autolink__email(d, p, offset, size) ==
    LET rewind == SkipWhile(0, offset,
                    LAMBDA k : isalnum(B(d, p - k - 1))
                               \/ B(d, p - k - 1) \in {".", "+", "-", "_"})
        e == SkipWhile(1, size,
                    LAMBDA k : isalnum(B(d, p + k)) \/ B(d, p + k) \in {".", "-", "_"})
        np == Cardinality({k \in 1..(e - 2) : B(d, p + k) = "."})
    IN IF rewind = 0 \/ e < 2 \/ np = 0 \/ ~isalnum(B(d, p + e - 1)) THEN NoMatch
       ELSE [len |-> e, rewind |-> rewind, link |-> Slice(d, p - rewind, e + rewind)]

\* ob->size -= rewind
Rewind(st, rewind) ==
    [st EXCEPT !.ob = SubSeq(@, 1, Max(0, Len(@) - rewind))]

\* the arguments of a link or image callback, as the bytes it renders
LinkBody(url, title, content) == url \o << "|" >> \o title \o << "|" >> \o content

\* a bare-autolink handler reached its callback (ghost)
AutoFired(st) == [st EXCEPT !.g_autoinlink = @ \/ st.g_linkdepth > 0,
                            !.g_autofired = TRUE]

(***************************************************************************)
(* The bare-autolink handlers, the link handler and superscript.           *)
(***************************************************************************)

\* char_autolink_www(ob, rndr, data, offset, size)
char_autolink_www(st, d, p, offset, size) ==
    IF ~has_cb("link") \/ st.ilb THEN Ret(st, 0)
    ELSE
    LET a == Call("rndr_newbuf", << st, BUFFER_SPAN >>)
        m == Call("sd_autolink__www", << d, p, offset, size >>)
    IN IF a.ret = 0 THEN Ret(a, 0)
       ELSE IF m.len > 0
       THEN LET b == Call("rndr_newbuf", << a, BUFFER_SPAN >>)
                link_url == << "h", "t", "t", "p", ":", "/", "/" >> \o m.link
            IN IF b.ret = 0 THEN Ret(b, 0)
               ELSE
               LET b1 == Rewind(b, m.rewind)
               IN IF has_cb("normal_text")
                  THEN LET c == Call("rndr_newbuf", << b1, BUFFER_SPAN >>)
                       IN IF c.ret = 0 THEN Ret(c, 0)
                          ELSE LET c1 == [c EXCEPT !.ncb = @ + 1,
                                                   !.g_calls = @ \cup {"normal_text"}]
                                   r == CallSpan(AutoFired(c1), "link",
                                                 LinkBody(link_url, << >>, m.link))
                               IN Ret(rndr_popbuf(rndr_popbuf(rndr_popbuf(r,
                                        BUFFER_SPAN), BUFFER_SPAN), BUFFER_SPAN), m.len)
                  ELSE LET r == CallSpan(AutoFired(b1), "link",
                                         LinkBody(link_url, << >>, m.link))
                       IN Ret(rndr_popbuf(rndr_popbuf(r, BUFFER_SPAN), BUFFER_SPAN),
                              m.len)
       ELSE Ret(rndr_popbuf(a, BUFFER_SPAN), m.len)

\* char_autolink_email and char_autolink_url, which differ in the scanner
\* and in the type handed to the autolink callback
AutolinkVia(st, m) ==
    IF ~has_cb("autolink") \/ st.ilb THEN Ret(st, 0)
    ELSE
    LET a == Call("rndr_newbuf", << st, BUFFER_SPAN >>)
    IN IF a.ret = 0 THEN Ret(a, 0)
       ELSE IF m.len > 0
       THEN LET r == CallSpan(AutoFired(Rewind(a, m.rewind)), "autolink", m.link)
            IN Ret(rndr_popbuf(r, BUFFER_SPAN), m.len)
       ELSE Ret(rndr_popbuf(a, BUFFER_SPAN), m.len)

\* char_autolink_email(ob, rndr, data, offset, size)
char_autolink_email(st, d, p, offset, size) ==
    Call("AutolinkVia", << st, Call("sd_autolink__email", << d, p, offset, size >>) >>)

\* char_autolink_url(ob, rndr, data, offset, size)
char_autolink_url(st, d, p, offset, size) ==
    Call("AutolinkVia", << st, Call("sd_autolink__url", << d, p, offset, size >>) >>)

\* the loop of char_link that looks for the matching closing bracket
link_txt_end(d, p, size, i, level, nl) ==
    IF i >= size THEN [i |-> i, nl |-> nl]
    ELSE IF B(d, p + i) = NL THEN Call("link_txt_end", << d, p, size, i + 1, level, TRUE >>)
    ELSE IF B(d, p + i - 1) = BSL THEN Call("link_txt_end", << d, p, size, i + 1, level, nl >>)
    ELSE IF B(d, p + i) = "[" THEN Call("link_txt_end", << d, p, size, i + 1, level + 1, nl >>)
    ELSE IF B(d, p + i) = "]"
         THEN IF level - 1 <= 0 THEN [i |-> i, nl |-> nl]
              ELSE Call("link_txt_end", << d, p, size, i + 1, level - 1, nl >>)
    ELSE Call("link_txt_end", << d, p, size, i + 1, level, nl >>)

\* the loop of char_link that looks for the end of an inline link: ' " )
link_url_end(d, p, size, i) ==
    IF i >= size THEN i
    ELSE IF B(d, p + i) = BSL THEN Call("link_url_end", << d, p, size, i + 2 >>)
    ELSE IF B(d, p + i) = ")" THEN i
    ELSE IF i >= 1 /\ _isspace(B(d, p + i - 1)) /\ B(d, p + i) \in {SQ, DQ} THEN i
    ELSE Call("link_url_end", << d, p, size, i + 1 >>)

\* the loop of char_link that looks for the end of the title
link_title_end(d, p, size, i, qtype, in_title) ==
    IF i >= size THEN i
    ELSE IF B(d, p + i) = BSL THEN Call("link_title_end", << d, p, size, i + 2, qtype, in_title >>)
    ELSE IF B(d, p + i) = qtype THEN Call("link_title_end", << d, p, size, i + 1, qtype, FALSE >>)
    ELSE IF B(d, p + i) = ")" /\ ~in_title THEN i
    ELSE Call("link_title_end", << d, p, size, i + 1, qtype, in_title >>)

\* the id char_link crafts from a link text that holds a newline
link_id_nl(d, p, j, txt_e) ==
    IF j >= txt_e THEN << >>
    ELSE (IF B(d, p + j) # NL THEN << B(d, p + j) >>
          ELSE IF B(d, p + j - 1) # SP THEN << SP >>
          ELSE << >>) \o Call("link_id_nl", << d, p, j + 1, txt_e >>)

\* the scan of an inline link  (url "title"):  the offsets char_link derives,
\* ok = FALSE where it gives up (goto cleanup)
InlineLinkScan(d, p, size, i0) ==
    LET link_b == SkipWhile(i0 + 1, size, LAMBDA k : _isspace(B(d, p + k)))
        i1 == Call("link_url_end", << d, p, size, link_b >>)
        quoted == i1 < size /\ B(d, p + i1) \in {SQ, DQ}
        i2 == IF quoted
              THEN Call("link_title_end", << d, p, size, i1 + 1, B(d, p + i1), TRUE >>)
              ELSE i1
        title_b0 == i1 + 1
        title_e0 == SkipBack(i2 - 1, title_b0, LAMBDA k : _isspace(B(d, p + k)))
        closed == quoted /\ B(d, p + title_e0) \in {SQ, DQ}
        title_b == IF closed THEN title_b0 ELSE 0
        title_e == IF closed THEN title_e0 ELSE 0
        link_e0 == IF quoted /\ ~closed THEN i2 ELSE i1
        link_e1 == SkipBack(link_e0, link_b, LAMBDA k : _isspace(B(d, p + k - 1)))
        link_b2 == IF B(d, p + link_b) = "<" THEN link_b + 1 ELSE link_b
        link_e2 == IF B(d, p + link_e1 - 1) = ">" THEN link_e1 - 1 ELSE link_e1
    IN [ok |-> i1 < size /\ i2 < size,
        i |-> i2 + 1,
        link |-> IF link_e2 > link_b2 THEN Slice(d, p + link_b2, link_e2 - link_b2)
                 ELSE << >>,
        has_link |-> link_e2 > link_b2,
        title |-> IF title_e > title_b THEN Slice(d, p + title_b, title_e - title_b)
                  ELSE << >>,
        has_title |-> title_e > title_b]

\* the end of char_link from  /* building content */  on: the link (NULL
\* when has_link is false), the title and the position i are known
LinkRender(st, d, p, is_img, txt_e, i, has_link, link, title, org) ==
    LET cleanup(s, ret) == [s EXCEPT !.work_bufs[BUFFER_SPAN].size = org, !.ret = ret]
        a == IF txt_e > 1 THEN Call("rndr_newbuf", << st, BUFFER_SPAN >>) ELSE Ret(st, 1)
    IN IF a.ret = 0 THEN cleanup(a, 0)
       ELSE
       LET w == IF txt_e > 1 /\ ~is_img
                THEN LET v == Call("parse_inline", << [a EXCEPT !.ob = << >>, !.ilb = TRUE,
                                                                !.g_linkdepth = @ + 1],
                                                      d, p + 1, txt_e - 1 >>)
                     IN [v EXCEPT !.ilb = FALSE, !.g_linkdepth = @ - 1]
                ELSE [a EXCEPT !.ob = IF txt_e > 1 THEN Slice(d, p + 1, txt_e - 1)
                                      ELSE << >>]
           content == w.ob
           b == IF has_link THEN Call("rndr_newbuf", << w, BUFFER_SPAN >>) ELSE Ret(w, 1)
       IN IF b.ret = 0 THEN cleanup([b EXCEPT !.ob = st.ob], 0)
          ELSE
          LET u_link == IF has_link THEN Call("unscape_text", << link, 0 >>) ELSE << >>
              ob1 == IF is_img /\ Len(st.ob) > 0 /\ st.ob[Len(st.ob)] = "!"
                     THEN SubSeq(st.ob, 1, Len(st.ob) - 1)
                     ELSE st.ob
              r == CallSpan([b EXCEPT !.ob = ob1],
                            IF is_img THEN "image" ELSE "link",
                            LinkBody(u_link, title, content))
          IN cleanup(r, IF r.ret # 0 THEN i ELSE 0)

\* char_link(ob, rndr, data, offset, size)
\* an ordinal taken before add_footnote_ref has counted the new item
footnote_num_stale(used) == Len(used) - 1

\* fr->num = rndr->footnotes_used.count, after add_footnote_ref
footnote_num(used) == Len(used)

char_link(st, d, p, offset, size) ==
    LET is_img == offset > 0 /\ B(d, p - 1) = "!"
        org == st.work_bufs[BUFFER_SPAN].size
        cleanup(s, ret) == [s EXCEPT !.work_bufs[BUFFER_SPAN].size = org, !.ret = ret]
        t == Call("link_txt_end", << d, p, size, 1, 1, FALSE >>)
        txt_e == t.i
        \* the id of a reference link with an empty or absent second bracket
        textid(s) == IF t.nl THEN Call("link_id_nl", << d, p, 1, txt_e >>)
                     ELSE Slice(d, p + 1, txt_e - 1)
        byref(s, id, i) ==
            LET lr == Call("find_link_ref", << s.refs, id >>)
            IN IF lr = << >> THEN cleanup(s, 0)
               ELSE Call("LinkRender", << [s EXCEPT !.g_resolved =
                                              Append(@, [id |-> lr[1].id, link |-> lr[1].link,
                                                         title |-> lr[1].title])],
                                          d, p, is_img, txt_e, i, TRUE, lr[1].link, lr[1].title, org >>)
    IN IF (is_img /\ ~has_cb("image")) \/ (~is_img /\ ~has_cb("link"))
       THEN cleanup(st, 0)
       ELSE IF txt_e >= size THEN cleanup(st, 0)
       ELSE IF "footnotes" \in ext_flags /\ B(d, p + 1) = "^"
       THEN IF txt_e < 3 THEN cleanup(st, 0)
            ELSE
            LET fr == Call("find_footnote_ref", << st.found, Slice(d, p + 2, txt_e - 2) >>)
                s1 == IF fr # 0 /\ ~st.found[fr].is_used
                      THEN [st EXCEPT !.used = Append(@, fr),
                                      !.found[fr].is_used = TRUE,
                                      !.found[fr].num = footnote_num(Append(st.used, fr))]
                      ELSE st
            IN IF fr # 0 /\ has_cb("footnote_ref")
               THEN LET r == CallSpan([s1 EXCEPT !.g_fnrefs = Append(@,
                                                [fr |-> fr, num |-> s1.found[fr].num])],
                                       "footnote_ref", Dec(s1.found[fr].num))
                    IN cleanup(r, IF r.ret # 0 THEN txt_e + 1 ELSE 0)
               ELSE cleanup(s1, 0)
       ELSE
       LET i == SkipWhile(txt_e + 1, size, LAMBDA k : _isspace(B(d, p + k)))
       IN IF i < size /\ B(d, p + i) = "("
          THEN \* inline style link
               LET sc == Call("InlineLinkScan", << d, p, size, i >>)
               IN IF ~sc.ok THEN cleanup(st, 0)
                  ELSE
                  LET a == IF sc.has_link THEN Call("rndr_newbuf", << st, BUFFER_SPAN >>)
                           ELSE Ret(st, 1)
                  IN IF a.ret = 0 THEN cleanup(a, 0)
                     ELSE
                     LET b == IF sc.has_title THEN Call("rndr_newbuf", << a, BUFFER_SPAN >>)
                              ELSE Ret(a, 1)
                     IN \* the test after the title's rndr_newbuf is on link
                        IF sc.has_title /\ ~sc.has_link THEN cleanup(b, 0)
                        ELSE IF b.ret = 0
                        THEN cleanup([b EXCEPT !.g_crash = TRUE], 0)
                        ELSE Call("LinkRender", << b, d, p, is_img, txt_e, sc.i,
                                                   sc.has_link, sc.link, sc.title, org >>)
          ELSE IF i < size /\ B(d, p + i) = "["
          THEN \* reference style link
               LET link_b == i + 1
                   link_e == SkipWhile(link_b, size, LAMBDA k : B(d, p + k) # "]")
               IN IF link_e >= size THEN cleanup(st, 0)
                  ELSE IF link_b = link_e
                  THEN LET a == IF t.nl THEN Call("rndr_newbuf", << st, BUFFER_SPAN >>) ELSE Ret(st, 1)
                       IN IF a.ret = 0 THEN cleanup(a, 0)
                          ELSE byref(a, textid(a), link_e + 1)
                  ELSE byref(st, Slice(d, p + link_b, link_e - link_b), link_e + 1)
          ELSE \* shortcut reference style link
               LET a == IF t.nl THEN Call("rndr_newbuf", << st, BUFFER_SPAN >>) ELSE Ret(st, 1)
               IN IF a.ret = 0 THEN cleanup(a, 0)
                  ELSE byref(a, textid(a), txt_e + 1)

\* char_superscript(ob, rndr, data, offset, size)
char_superscript(st, d, p, offset, size) ==
    IF ~has_cb("superscript") THEN Ret(st, 0)
    ELSE IF size < 2 THEN Ret(st, 0)
    ELSE
    LET paren == B(d, p + 1) = "("
        sup_start == IF paren THEN 2 ELSE 1
        sup_len == IF paren
                   THEN SkipWhile(2, size,
                          LAMBDA k : B(d, p + k) # ")" /\ B(d, p + k - 1) # BSL)
                   ELSE SkipWhile(1, size, LAMBDA k : ~_isspace(B(d, p + k)))
    IN IF paren /\ sup_len = size THEN Ret(st, 0)
       ELSE IF sup_len - sup_start = 0 THEN Ret(st, IF paren THEN 3 ELSE 0)
       ELSE LET a == Call("rndr_newbuf", << st, BUFFER_SPAN >>)
            IN IF a.ret = 0 THEN Ret(a, 0)
               ELSE LET w == Call("parse_inline", << [a EXCEPT !.ob = << >>],
                                                     d, p + sup_start, sup_len - sup_start >>)
                        r == CallSpan([w EXCEPT !.ob = st.ob], "superscript", w.ob)
                    IN Ret(rndr_popbuf(r, BUFFER_SPAN),
                           IF paren THEN sup_len + 1 ELSE sup_len)

\* markdown_char_ptrs[action](ob, rndr, data, offset, size)
dispatch(action, st, d, p, offset, size) ==
    CASE action = "emphasis" -> Call("char_emphasis", << st, d, p, offset, size >>)
      [] action = "codespan" -> Call("char_codespan", << st, d, p, offset, size >>)
      [] action = "linebreak" -> Call("char_linebreak", << st, d, p, offset, size >>)
      [] action = "link" -> Call("char_link", << st, d, p, offset, size >>)
      [] action = "langle" -> Call("char_langle_tag", << st, d, p, offset, size >>)
      [] action = "escape" -> Call("char_escape", << st, d, p, offset, size >>)
      [] action = "entity" -> Call("char_entity", << st, d, p, offset, size >>)
      [] action = "autolink_url" -> Call("char_autolink_url", << st, d, p, offset, size >>)
      [] action = "autolink_email" -> Call("char_autolink_email", << st, d, p, offset, size >>)
      [] action = "autolink_www" -> Call("char_autolink_www", << st, d, p, offset, size >>)
      [] action = "superscript" -> Call("char_superscript", << st, d, p, offset, size >>)

(***************************************************************************)
(* Block-level parsing: the line classifiers.                              *)
(***************************************************************************)

\* is_empty(data, size): the line length when it is empty, 0 otherwise
is_empty(d, p, size) ==
    LET i == SkipWhile(0, size, LAMBDA k : B(d, p + k) = SP)
    IN IF i < size /\ B(d, p + i) # NL THEN 0 ELSE i + 1

\* the up to three leading spaces is_hrule and prefix_codefence skip
Indent3(d, p) ==
    IF B(d, p) # SP THEN 0
    ELSE IF B(d, p + 1) # SP THEN 1
    ELSE IF B(d, p + 2) # SP THEN 2
    ELSE 3

\* the up to three leading spaces the prefix_* functions skip, within size
Indent3In(d, p, size) == SkipWhile(0, Min(3, size), LAMBDA k : B(d, p + k) = SP)

\* is_hrule(data, size)
is_hrule(d, p, size) ==
    IF size < 3 THEN FALSE
    ELSE
    LET i == Indent3(d, p)
        c == B(d, p + i)
    IN IF i + 2 >= size \/ c \notin {"*", "-", "_"} THEN FALSE
       ELSE LET e == SkipWhile(i, size, LAMBDA k : B(d, p + k) # NL)
                n == Cardinality({k \in i..(e - 1) : B(d, p + k) = c})
            IN /\ \A k \in i..(e - 1) : B(d, p + k) \in {c, SP}
               /\ n >= 3

\* prefix_codefence(data, size): the width of the code fence
prefix_codefence(d, p, size) ==
    IF size < 3 THEN 0
    ELSE
    LET i == Indent3(d, p)
        c == B(d, p + i)
    IN IF i + 2 >= size \/ c \notin {"~", BT} THEN 0
       ELSE LET e == SkipWhile(i, size, LAMBDA k : B(d, p + k) = c)
            IN IF e - i < 3 THEN 0 ELSE e

\* is_codefence(data, size, syntax): [len, syntax]
is_codefence(d, p, size) ==
    LET i0 == Call("prefix_codefence", << d, p, size >>)
        none == [len |-> 0, syntax |-> << >>]
        tail(i, syn) ==
            LET e == SkipWhile(i, size, LAMBDA k : B(d, p + k) # NL)
            IN IF \A k \in i..(e - 1) : _isspace(B(d, p + k))
               THEN [len |-> e + 1, syntax |-> syn]
               ELSE none
    IN IF i0 = 0 THEN none
       ELSE
       LET i1 == SkipWhile(i0, size, LAMBDA k : B(d, p + k) = SP)
       IN IF i1 < size /\ B(d, p + i1) = "{"
          THEN LET i2 == SkipWhile(i1 + 1, size, LAMBDA k : B(d, p + k) \notin {"}", NL})
                   s0 == i1 + 1
                   s1 == SkipWhile(s0, i2, LAMBDA k : _isspace(B(d, p + k)))
                   s2 == SkipBack(i2, s1, LAMBDA k : _isspace(B(d, p + k - 1)))
               IN IF i2 = size \/ B(d, p + i2) # "}" THEN none
                  ELSE tail(i2 + 1, Slice(d, p + s1, s2 - s1))
          ELSE LET i2 == SkipWhile(i1, size, LAMBDA k : ~_isspace(B(d, p + k)))
               IN tail(i2, Slice(d, p + i1, i2 - i1))

\* is_atxheader(rndr, data, size)
is_atxheader(d, p, size) ==
    IF B(d, p) # "#" THEN FALSE
    ELSE IF "space_headers" \in ext_flags
    THEN LET level == SkipWhile(0, Min(size, 6), LAMBDA k : B(d, p + k) = "#")
         IN ~(level < size /\ B(d, p + level) # SP)
    ELSE TRUE

\* is_headerline(data, size): 1 or 2 for a setext underline, else 0
is_headerline(d, p, size) ==
    IF B(d, p) \in {"=", "-"}
    THEN LET c == B(d, p)
             i == SkipWhile(1, size, LAMBDA k : B(d, p + k) = c)
             j == SkipWhile(i, size, LAMBDA k : B(d, p + k) = SP)
         IN IF j >= size \/ B(d, p + j) = NL
            THEN (IF c = "=" THEN 1 ELSE 2)
            ELSE 0
    ELSE 0

\* is_next_headerline(data, size)
is_next_headerline(d, p, size) ==
    LET i == SkipWhile(0, size, LAMBDA k : B(d, p + k) # NL) + 1
    IN IF i >= size THEN 0 ELSE Call("is_headerline", << d, p + i, size - i >>)

\* prefix_quote(data, size): blockquote prefix length
prefix_quote(d, p, size) ==
    LET i == Indent3In(d, p, size)
    IN IF i < size /\ B(d, p + i) = ">"
       THEN IF i + 1 < size /\ B(d, p + i + 1) = SP THEN i + 2 ELSE i + 1
       ELSE 0

\* prefix_code(data, size): prefix length for block code
prefix_code(d, p, size) ==
    IF size > 3 /\ \A k \in 0..3 : B(d, p + k) = SP THEN 4 ELSE 0

\* prefix_oli(data, size): ordered list item prefix
prefix_oli(d, p, size) ==
    LET i == Indent3In(d, p, size)
    IN IF i >= size \/ B(d, p + i) \notin Digit THEN 0
       ELSE LET j == SkipWhile(i, size, LAMBDA k : B(d, p + k) \in Digit)
            IN IF j + 1 >= size \/ B(d, p + j) # "." \/ B(d, p + j + 1) # SP THEN 0
               ELSE IF Call("is_next_headerline", << d, p + j, size - j >>) # 0 THEN 0
               ELSE j + 2

\* prefix_uli(data, size): unordered list item prefix
prefix_uli(d, p, size) ==
    LET i == Indent3In(d, p, size)
    IN IF i + 1 >= size \/ B(d, p + i) \notin {"*", "+", "-"} \/ B(d, p + i + 1) # SP
       THEN 0
       ELSE IF Call("is_next_headerline", << d, p + i, size - i >>) # 0 THEN 0
       ELSE i + 2

\* the end of the line that starts at beg:
\*   for (end = beg + 1; end < size && data[end - 1] != '\n'; end++);
LineEnd(d, p, size, from) ==
    SkipWhile(from + 1, size, LAMBDA k : B(d, p + k - 1) # NL)

\* d with the bytes from 0-based offset at replaced by bytes (memmove)
Overwrite(d, at, bytes) ==
    [k \in 1..Len(d) |-> IF k - 1 >= at /\ k - 1 < at + Len(bytes)
                         THEN bytes[k - at] ELSE d[k]]

(***************************************************************************)
(* Block-level parsing: the block rules.                                   *)
(***************************************************************************)

\* the loop of parse_blockquote; wd is the offset of work_data (-1 for
\* NULL), ws is work_size, d is the buffer as compacted in place so far
quote_loop(d, p, size, beg0, end0, wd, ws) ==
    IF beg0 >= size THEN [end |-> end0, wd |-> wd, ws |-> ws, d |-> d]
    ELSE
    LET end == LineEnd(d, p, size, beg0)
        pre == prefix_quote(d, p + beg0, end - beg0)
        bg == beg0 + pre
    IN IF pre = 0 /\ is_empty(d, p + beg0, end - beg0) # 0
          /\ (end >= size \/ (prefix_quote(d, p + end, size - end) = 0
                              /\ is_empty(d, p + end, size - end) = 0))
       THEN [end |-> end, wd |-> wd, ws |-> ws, d |-> d]
       ELSE IF bg < end
       THEN IF wd < 0
            THEN Call("quote_loop", << d, p, size, end, end, p + bg, end - bg >>)
            ELSE Call("quote_loop", << 
                              IF p + bg # wd + ws
                              THEN Overwrite(d, wd + ws, Slice(d, p + bg, end - bg)) ELSE d,
                              p, size, end, end, wd, ws + (end - bg) >>)
       ELSE Call("quote_loop", << d, p, size, end, end, wd, ws >>)

\* parse_blockquote(ob, rndr, data, size)
parse_blockquote(st, d, p, size) ==
    LET a == Call("rndr_newbuf", << st, BUFFER_BLOCK >>)
    IN IF a.ret = 0 THEN Ret(a, 0)
       ELSE
       LET q == Call("quote_loop", << d, p, size, 0, 0, 0 - 1, 0 >>)
           w == Call("parse_block", << [a EXCEPT !.ob = << >>], q.d, Max(q.wd, 0), q.ws >>)
           r == IF has_cb("blockquote")
                THEN CallVoid([w EXCEPT !.ob = st.ob], "blockquote", w.ob)
                ELSE [w EXCEPT !.ob = st.ob]
       IN Ret(rndr_popbuf(r, BUFFER_BLOCK), q.end)

\* the table of HTML block element names behind find_block_tag (gperf
\* generated, not among the sources): the names recognised here
BlockTags == { << "p" >>, << "d", "i", "v" >>, << "i", "n", "s" >>,
               << "d", "e", "l" >>, << "p", "r", "e" >>, << "u", "l" >> }

\* find_block_tag(str, len): the canonical tag, or the empty sequence
find_block_tag(name) ==
    LET low == [k \in 1..Len(name) |-> tolower(name[k])]
    IN IF low \in BlockTags THEN low ELSE << >>

\* htmlblock_end_tag(tag, tag_len, rndr, data, size)
htmlblock_end_tag(tag, d, p, size) ==
    LET tag_len == Len(tag)
    IN IF tag_len + 3 >= size
          \/ (\E k \in 1..tag_len : tolower(B(d, p + 1 + k)) # tag[k])
          \/ B(d, p + tag_len + 2) # ">"
       THEN 0
       ELSE
       LET i == tag_len + 3
           w == IF i < size THEN is_empty(d, p + i, size - i) ELSE 0
       IN IF i < size /\ w = 0 THEN 0
          ELSE LET i2 == i + w
                   w2 == IF i2 < size THEN is_empty(d, p + i2, size - i2) ELSE 0
               IN i2 + w2

\* the loop of htmlblock_end from  while (i < size)
htmlblock_end_loop(curtag, d, p, size, start_of_line, i, block_lines) ==
    IF i >= size THEN 0
    ELSE
    LET j == SkipWhile(i + 1, size,
                LAMBDA k : ~(B(d, p + k - 1) = "<" /\ B(d, p + k) = "/"))
        bl == block_lines + Cardinality({k \in (i + 1)..(j - 1) : B(d, p + k) = NL})
    IN IF start_of_line /\ bl > 0 /\ B(d, p + j - 2) # NL
       THEN Call("htmlblock_end_loop", << curtag, d, p, size, start_of_line, j, bl >>)
       ELSE IF j + 2 + Len(curtag) >= size THEN 0
       ELSE LET end_tag == Call("htmlblock_end_tag", << curtag, d, p + j - 1, size - j + 1 >>)
            IN IF end_tag # 0 THEN j + end_tag - 1
               ELSE Call("htmlblock_end_loop", << curtag, d, p, size, start_of_line, j, bl >>)

\* htmlblock_end(curtag, rndr, data, size, start_of_line)
htmlblock_end(curtag, d, p, size, start_of_line) ==
    Call("htmlblock_end_loop", << curtag, d, p, size, start_of_line, 1, 0 >>)

\* the length parse_htmlblock returns: the extent of the HTML block at data
htmlblock_len(d, p, size) ==
    IF size < 2 \/ B(d, p) # "<" THEN 0
    ELSE
    LET i == SkipWhile(1, size, LAMBDA k : B(d, p + k) \notin {">", SP})
        curtag == IF i < size THEN find_block_tag(Slice(d, p + 1, i - 1)) ELSE << >>
    IN IF curtag = << >>
       THEN LET ci == SkipWhile(5, size,
                        LAMBDA k : ~(B(d, p + k - 2) = "-" /\ B(d, p + k - 1) = "-"
                                     /\ B(d, p + k) = ">")) + 1
                cj == IF size > 5 /\ B(d, p + 1) = "!" /\ B(d, p + 2) = "-"
                         /\ B(d, p + 3) = "-" /\ ci < size
                      THEN is_empty(d, p + ci, size - ci) ELSE 0
                hi == SkipWhile(3, size, LAMBDA k : B(d, p + k) # ">")
                hj == IF size > 4 /\ B(d, p + 1) \in {"h", "H"}
                         /\ B(d, p + 2) \in {"r", "R"} /\ hi + 1 < size
                      THEN is_empty(d, p + hi + 1, size - hi - 1) ELSE 0
            IN IF cj # 0 THEN ci + cj
               ELSE IF hj # 0 THEN hi + 1 + hj
               ELSE 0
       ELSE LET e1 == Call("htmlblock_end", << curtag, d, p, size, TRUE >>)
            IN IF e1 = 0 /\ curtag # << "i", "n", "s" >> /\ curtag # << "d", "e", "l" >>
               THEN Call("htmlblock_end", << curtag, d, p, size, FALSE >>)
               ELSE e1

\* parse_htmlblock(ob, rndr, data, size, do_render)
parse_htmlblock(st, d, p, size, do_render) ==
    LET n == Call("htmlblock_len", << d, p, size >>)
    IN IF n # 0 /\ do_render /\ has_cb("blockhtml")
       THEN Ret(CallVoid(st, "blockhtml", Slice(d, p, n)), n)
       ELSE Ret(st, n)

\* the line loop of parse_paragraph with the block-opener test made
\* conditional on MKDEXT_LAX_SPACING (a mutation of para_loop)
para_loop_laxonly(d, p, size, i) ==
    IF i >= size THEN [i |-> i, end |-> i, level |-> 0, why |-> "size"]
    ELSE
    LET end == LineEnd(d, p, size, i)
        level == Call("is_headerline", << d, p + i, size - i >>)
    IN IF is_empty(d, p + i, size - i) # 0
       THEN [i |-> i, end |-> end, level |-> 0, why |-> "empty"]
       ELSE IF level # 0 THEN [i |-> i, end |-> end, level |-> level, why |-> "setext"]
       ELSE IF "lax_spacing" \in ext_flags
               /\ (Call("is_atxheader", << d, p + i, size - i >>)
                   \/ Call("is_hrule", << d, p + i, size - i >>)
                   \/ prefix_quote(d, p + i, size - i) # 0)
            THEN [i |-> i, end |-> i, level |-> 0, why |-> "opener"]
       ELSE IF "lax_spacing" \in ext_flags /\ ~isalnum(B(d, p + i))
               /\ \/ Call("prefix_oli", << d, p + i, size - i >>) # 0
                  \/ Call("prefix_uli", << d, p + i, size - i >>) # 0
                  \/ (B(d, p + i) = "<" /\ has_cb("blockhtml")
                      /\ Call("htmlblock_len", << d, p + i, size - i >>) # 0)
                  \/ ("fenced_code" \in ext_flags
                      /\ Call("is_codefence", << d, p + i, size - i >>).len # 0)
            THEN [i |-> i, end |-> i, level |-> 0, why |-> "lax"]
       ELSE Call("para_loop", << d, p, size, end >>)

\* the line loop of parse_paragraph: [i, end, level] when it stops, and why
\* it stopped
para_loop(d, p, size, i) ==
    IF i >= size THEN [i |-> i, end |-> i, level |-> 0, why |-> "size"]
    ELSE
    LET end == LineEnd(d, p, size, i)
        level == Call("is_headerline", << d, p + i, size - i >>)
    IN IF is_empty(d, p + i, size - i) # 0
       THEN [i |-> i, end |-> end, level |-> 0, why |-> "empty"]
       ELSE IF level # 0 THEN [i |-> i, end |-> end, level |-> level, why |-> "setext"]
       ELSE IF Call("is_atxheader", << d, p + i, size - i >>) \/ Call("is_hrule", << d, p + i, size - i >>)
               \/ prefix_quote(d, p + i, size - i) # 0
            THEN [i |-> i, end |-> i, level |-> 0, why |-> "opener"]
       ELSE IF "lax_spacing" \in ext_flags /\ ~isalnum(B(d, p + i))
               /\ \/ Call("prefix_oli", << d, p + i, size - i >>) # 0
                  \/ Call("prefix_uli", << d, p + i, size - i >>) # 0
                  \/ (B(d, p + i) = "<" /\ has_cb("blockhtml")
                      /\ Call("htmlblock_len", << d, p + i, size - i >>) # 0)
                  \/ ("fenced_code" \in ext_flags
                      /\ Call("is_codefence", << d, p + i, size - i >>).len # 0)
            THEN [i |-> i, end |-> i, level |-> 0, why |-> "lax"]
       ELSE Call("para_loop", << d, p, size, end >>)

\* history: a line of data[p..p+n) other than the first that the paragraph
\* loop went past although it is empty, a setext underline, an ATX header, a
\* horizontal rule or a quoted line
para_passed(d, p, size, n) ==
    \E k \in 1..(n - 1) :
        /\ B(d, p + k - 1) = NL
        /\ \/ is_empty(d, p + k, size - k) # 0
           \/ Call("is_headerline", << d, p + k, size - k >>) # 0
           \/ Call("is_atxheader", << d, p + k, size - k >>)
           \/ Call("is_hrule", << d, p + k, size - k >>)
           \/ prefix_quote(d, p + k, size - k) # 0

\* render data[0..n) inline into a work buffer of the given pool and hand it
\* to the block callback name; ret = 0 when the work buffer is NULL
BlockInline(st, d, p, n, type, name) ==
    LET a == Call("rndr_newbuf", << st, type >>)
    IN IF a.ret = 0 THEN Ret(a, 0)
       ELSE LET w == Call("parse_inline", << [a EXCEPT !.ob = << >>], d, p, n >>)
                r == IF has_cb(name)
                     THEN CallVoid([w EXCEPT !.ob = st.ob], name, w.ob)
                     ELSE [w EXCEPT !.ob = st.ob]
            IN Ret(rndr_popbuf(r, type), 1)

\* parse_paragraph(ob, rndr, data, size)
parse_paragraph(st, d, p, size) ==
    LET l == Call("para_loop", << d, p, size, 0 >>)
        st1 == [st EXCEPT !.g_paraend = @ \cup {l.why},
                          !.g_parabad = @ \/ para_passed(d, p, size, l.i)]
        wsize == SkipBack(l.i, 0, LAMBDA k : B(d, p + k - 1) = NL)
    IN IF l.level = 0
       THEN LET r == Call("BlockInline", << st1, d, p, wsize, BUFFER_BLOCK, "paragraph" >>)
            IN IF r.ret = 0 THEN r ELSE Ret(r, l.end)
       ELSE IF wsize # 0
       THEN LET s1 == SkipBack(wsize - 1, 0, LAMBDA k : B(d, p + k) # NL)
                hbeg == s1 + 1
                s2 == SkipBack(s1, 0, LAMBDA k : B(d, p + k - 1) = NL)
            IN IF s2 > 0
               THEN LET r == Call("BlockInline", << st1, d, p, s2, BUFFER_BLOCK, "paragraph" >>)
                    IN IF r.ret = 0 THEN r
                       ELSE LET h == Call("BlockInline", << r, d, p + hbeg, wsize - hbeg,
                                                            BUFFER_SPAN, "header" >>)
                            IN IF h.ret = 0 THEN h ELSE Ret(h, l.end)
               ELSE LET h == Call("BlockInline", << st1, d, p, wsize, BUFFER_SPAN, "header" >>)
                    IN IF h.ret = 0 THEN h ELSE Ret(h, l.end)
       ELSE LET h == Call("BlockInline", << st1, d, p, 0, BUFFER_SPAN, "header" >>)
            IN IF h.ret = 0 THEN h ELSE Ret(h, l.end)

\* the loop of parse_fencedcode: [beg, work]
fence_loop(d, p, size, bg, work) ==
    IF bg >= size THEN [bg |-> bg, work |-> work]
    ELSE
    LET f == Call("is_codefence", << d, p + bg, size - bg >>)
        end == LineEnd(d, p, size, bg)
    IN IF f.len # 0 /\ Len(f.syntax) = 0 THEN [bg |-> bg + f.len, work |-> work]
       ELSE Call("fence_loop", << d, p, size, end,
                                  IF bg < end
                                  THEN (IF is_empty(d, p + bg, end - bg) # 0
                                        THEN Append(work, NL)
                                        ELSE work \o Slice(d, p + bg, end - bg))
                                  ELSE work >>)

\* parse_fencedcode(ob, rndr, data, size)
parse_fencedcode(st, d, p, size) ==
    LET f == Call("is_codefence", << d, p, size >>)
    IN IF f.len = 0 THEN Ret(st, 0)
       ELSE
       LET a == Call("rndr_newbuf", << st, BUFFER_BLOCK >>)
       IN IF a.ret = 0 THEN Ret(a, 0)
          ELSE
          LET l == Call("fence_loop", << d, p, size, f.len, << >> >>)
              work == IF Len(l.work) > 0 /\ l.work[Len(l.work)] # NL
                      THEN Append(l.work, NL) ELSE l.work
              r == IF has_cb("blockcode")
                   THEN CallVoid(a, "blockcode", f.syntax \o << "|" >> \o work)
                   ELSE a
          IN Ret(rndr_popbuf(r, BUFFER_BLOCK), l.bg)

\* the loop of parse_blockcode: [beg, work]
code_loop(d, p, size, beg0, work) ==
    IF beg0 >= size THEN [bg |-> beg0, work |-> work]
    ELSE
    LET end == LineEnd(d, p, size, beg0)
        pre == prefix_code(d, p + beg0, end - beg0)
        bg == beg0 + pre
    IN IF pre = 0 /\ is_empty(d, p + beg0, end - beg0) = 0
       THEN [bg |-> beg0, work |-> work]
       ELSE Call("code_loop", << d, p, size, end,
                                 IF bg < end
                                 THEN (IF is_empty(d, p + bg, end - bg) # 0
                                       THEN Append(work, NL)
                                       ELSE work \o Slice(d, p + bg, end - bg))
                                 ELSE work >>)

\* parse_blockcode(ob, rndr, data, size)
parse_blockcode(st, d, p, size) ==
    LET a == Call("rndr_newbuf", << st, BUFFER_BLOCK >>)
    IN IF a.ret = 0 THEN Ret(a, 0)
       ELSE
       LET l == Call("code_loop", << d, p, size, 0, << >> >>)
           work == Append(RStrip(l.work, NL), NL)
           r == IF has_cb("blockcode")
                THEN CallVoid(a, "blockcode", << "|" >> \o work)
                ELSE a
       IN Ret(rndr_popbuf(r, BUFFER_BLOCK), l.bg)

\* the loop of parse_listitem over the lines after the first; L holds the
\* locals beg, work, sublist, in_empty, has_inside_empty, in_fence, flags
item_loop(d, p, size, orgpre, L) ==
    IF L.bg >= size THEN L
    ELSE
    LET end == LineEnd(d, p, size, L.bg)
        i == SkipWhile(0, Min(4, end - L.bg), LAMBDA k : B(d, p + L.bg + k) = SP)
        q == p + L.bg + i
        n == end - L.bg - i
        in_fence == IF "fenced_code" \in ext_flags /\ Call("is_codefence", << d, q, n >>).len # 0
                    THEN ~L.in_fence ELSE L.in_fence
        has_next_uli == IF ~in_fence THEN Call("prefix_uli", << d, q, n >>) ELSE 0
        has_next_oli == IF ~in_fence THEN Call("prefix_oli", << d, q, n >>) ELSE 0
        ordered == MKD_LIST_ORDERED \in L.flags
        \* history: a line inside a fence that begins with a list marker, and
        \* whether the item took it or ended at it
        marker == in_fence /\ (Call("prefix_uli", << d, q, n >>) # 0
                               \/ Call("prefix_oli", << d, q, n >>) # 0)
        L1 == [L EXCEPT !.in_fence = in_fence,
                        !.g_fm = IF marker
                                 THEN @ \cup {IF L.in_empty /\ i = 0 THEN "ended"
                                              ELSE "copied"}
                                 ELSE @]
        add(M) == Call("item_loop", << d, p, size, orgpre,
                                       [M EXCEPT !.in_empty = FALSE,
                                                 !.work = @ \o Slice(d, q, n),
                                                 !.bg = end] >>)
    IN IF is_empty(d, p + L.bg, end - L.bg) # 0
       THEN Call("item_loop", << d, p, size, orgpre, [L EXCEPT !.in_empty = TRUE, !.bg = end] >>)
       ELSE IF L.in_empty /\ ((ordered /\ has_next_uli # 0)
                              \/ (~ordered /\ has_next_oli # 0))
       THEN [L1 EXCEPT !.flags = @ \cup {MKD_LI_END}]
       ELSE IF (has_next_uli # 0 /\ ~Call("is_hrule", << d, q, n >>)) \/ has_next_oli # 0
       THEN LET L2 == [L1 EXCEPT !.has_inside_empty = @ \/ L.in_empty]
            IN IF i = orgpre THEN L2
               ELSE add([L2 EXCEPT !.sublist = IF @ = 0 THEN Len(L.work) ELSE @])
       ELSE IF L.in_empty /\ i = 0
       THEN [L1 EXCEPT !.flags = @ \cup {MKD_LI_END}]
       ELSE IF L.in_empty
       THEN add([L1 EXCEPT !.work = Append(@, NL), !.has_inside_empty = TRUE])
       ELSE add(L1)

\* the flags of a list or an item, as the callback sees them
FlagBytes(flags) ==
    (IF MKD_LIST_ORDERED \in flags THEN << "o" >> ELSE << "u" >>)
    \o (IF MKD_LI_BLOCK \in flags THEN << "b" >> ELSE << >>) \o << "|" >>

\* parse_listitem(ob, rndr, data, size, &flags): ret and, in the field
\* flags, the flags as the item leaves them
parse_listitem(st, d, p, size, flags) ==
    LET orgpre == Indent3In(d, p, size)
        u == Call("prefix_uli", << d, p, size >>)
        bg == IF u # 0 THEN u ELSE Call("prefix_oli", << d, p, size >>)
        s0 == [st EXCEPT !.flags = flags]
    IN IF bg = 0 THEN Ret(s0, 0)
       ELSE
       LET end == SkipWhile(bg, size, LAMBDA k : B(d, p + k - 1) # NL)
           a == Call("rndr_newbuf", << s0, BUFFER_SPAN >>)
       IN IF a.ret = 0 THEN Ret(a, 0)
          ELSE
          LET b == Call("rndr_newbuf", << a, BUFFER_SPAN >>)
          IN IF b.ret = 0 THEN Ret(b, 0)
             ELSE
             LET L == Call("item_loop", << d, p, size, orgpre,
                                           [bg |-> end, work |-> Slice(d, p + bg, end - bg),
                                            sublist |-> 0, in_empty |-> FALSE,
                                            has_inside_empty |-> FALSE, in_fence |-> FALSE,
                                            flags |-> flags, g_fm |-> {}] >>)
                 fl == IF L.has_inside_empty THEN L.flags \cup {MKD_LI_BLOCK}
                       ELSE L.flags
                 split == L.sublist # 0 /\ L.sublist < Len(L.work)
                 n1 == IF split THEN L.sublist ELSE Len(L.work)
                 i0 == [b EXCEPT !.ob = << >>, !.flags = fl]
                 i1 == IF MKD_LI_BLOCK \in fl
                       THEN Call("parse_block", << i0, L.work, 0, n1 >>)
                       ELSE Call("parse_inline", << i0, L.work, 0, n1 >>)
                 i2 == IF split
                       THEN Call("parse_block", << i1, L.work, L.sublist, Len(L.work) - L.sublist >>)
                       ELSE i1
                 r == IF has_cb("listitem")
                      THEN CallVoid([i2 EXCEPT !.ob = st.ob], "listitem",
                                    FlagBytes(fl) \o i2.ob)
                      ELSE [i2 EXCEPT !.ob = st.ob]
             IN [rndr_popbuf(rndr_popbuf(r, BUFFER_SPAN), BUFFER_SPAN)
                   EXCEPT !.ret = L.bg, !.flags = fl,
                          !.g_fencemark = @ \cup L.g_fm]

\* the loop of parse_list: ret is i, flags the flags at the end
list_loop(st, d, p, size, i, flags) ==
    IF i >= size THEN [st EXCEPT !.ret = i, !.flags = flags]
    ELSE LET r == Call("parse_listitem", << st, d, p + i, size - i, flags >>)
         IN IF r.ret = 0 \/ MKD_LI_END \in r.flags
            THEN Ret(r, i + r.ret)
            ELSE Call("list_loop", << r, d, p, size, i + r.ret, r.flags >>)

\* parse_list(ob, rndr, data, size, flags)
parse_list(st, d, p, size, flags) ==
    LET a == Call("rndr_newbuf", << st, BUFFER_BLOCK >>)
    IN IF a.ret = 0 THEN Ret(a, 0)
       ELSE
       LET w == Call("list_loop", << [a EXCEPT !.ob = << >>], d, p, size, 0, flags >>)
           r == IF has_cb("list")
                THEN CallVoid([w EXCEPT !.ob = st.ob], "list", FlagBytes(w.flags) \o w.ob)
                ELSE [w EXCEPT !.ob = st.ob]
       IN Ret(rndr_popbuf(r, BUFFER_BLOCK), w.ret)

\* a parse_atxheader that returns the end of the title, not of the line
parse_atxheader_stall(st, d, p, size) ==
    LET level == SkipWhile(0, Min(size, 6), LAMBDA k : B(d, p + k) = "#")
        i == SkipWhile(level, size, LAMBDA k : B(d, p + k) = SP)
        skip == SkipWhile(i, size, LAMBDA k : B(d, p + k) # NL)
        e1 == SkipBack(skip, 0, LAMBDA k : B(d, p + k - 1) = "#")
        end == SkipBack(e1, 0, LAMBDA k : B(d, p + k - 1) = SP)
    IN IF end > i
       THEN LET r == Call("BlockInline", << st, d, p + i, end - i, BUFFER_SPAN, "header" >>)
            IN IF r.ret = 0 THEN r ELSE Ret(r, end)
       ELSE Ret(st, end)

\* parse_atxheader(ob, rndr, data, size)
parse_atxheader(st, d, p, size) ==
    LET level == SkipWhile(0, Min(size, 6), LAMBDA k : B(d, p + k) = "#")
        i == SkipWhile(level, size, LAMBDA k : B(d, p + k) = SP)
        skip == SkipWhile(i, size, LAMBDA k : B(d, p + k) # NL)
        e1 == SkipBack(skip, 0, LAMBDA k : B(d, p + k - 1) = "#")
        end == SkipBack(e1, 0, LAMBDA k : B(d, p + k - 1) = SP)
    IN IF end > i
       THEN LET r == Call("BlockInline", << st, d, p + i, end - i, BUFFER_SPAN, "header" >>)
            IN IF r.ret = 0 THEN r ELSE Ret(r, skip)
       ELSE Ret(st, skip)

\* parse_footnote_def(ob, rndr, num, data, size)
parse_footnote_def(st, num, contents) ==
    LET a == Call("rndr_newbuf", << st, BUFFER_SPAN >>)
    IN IF a.ret = 0 THEN a
       ELSE LET w == Call("parse_block", << [a EXCEPT !.ob = << >>], contents, 0, Len(contents) >>)
                r == IF has_cb("footnote_def")
                     THEN CallVoid([w EXCEPT !.ob = st.ob,
                                             !.g_fndefs = Append(@, num)],
                                   "footnote_def", Dec(num) \o << "|" >> \o w.ob)
                     ELSE [w EXCEPT !.ob = st.ob]
            IN rndr_popbuf(r, BUFFER_SPAN)

\* the loop of parse_footnote_list over the used footnotes, from item k
footnote_items(st, k) ==
    IF k > Len(st.used) THEN st
    ELSE LET ref == st.found[st.used[k]]
         IN Call("footnote_items", << Call("parse_footnote_def", << st, ref.num, ref.contents >>), k + 1 >>)

\* parse_footnote_list(ob, rndr, footnotes)
parse_footnote_list(st) ==
    IF Len(st.used) = 0 THEN st
    ELSE LET a == Call("rndr_newbuf", << st, BUFFER_BLOCK >>)
         IN IF a.ret = 0 THEN a
            ELSE LET w == Call("footnote_items", << [a EXCEPT !.ob = << >>], 1 >>)
                     r == IF has_cb("footnotes")
                          THEN CallVoid([w EXCEPT !.ob = st.ob], "footnotes", w.ob)
                          ELSE [w EXCEPT !.ob = st.ob]
                 IN rndr_popbuf(r, BUFFER_BLOCK)

\* the flags of a table cell: alignment bits and the header bit
MKD_TABLE_ALIGN_L == "L"
MKD_TABLE_ALIGN_R == "R"
MKD_TABLE_HEADER == "H"

CellFlags(flags) ==
    (IF MKD_TABLE_ALIGN_L \in flags THEN << "L" >> ELSE << >>)
    \o (IF MKD_TABLE_ALIGN_R \in flags THEN << "R" >> ELSE << >>)
    \o (IF MKD_TABLE_HEADER \in flags THEN << "H" >> ELSE << >>) \o << "|" >>

\* the two loops of parse_table_row over the columns; the buffer written
\* is row_work, ret = 0 when a cell's work buffer is NULL
row_cells(st, d, p, size, columns, col_data, header_flag, col, i) ==
    IF col >= columns THEN Ret(st, 1)
    ELSE IF i >= size
    THEN Call("row_cells", << CallVoid(st, "table_cell", CellFlags(col_data[col + 1] \cup header_flag)),
                              d, p, size, columns, col_data, header_flag, col + 1, i >>)
    ELSE
    LET a == Call("rndr_newbuf", << st, BUFFER_SPAN >>)
    IN IF a.ret = 0 THEN Ret(a, 0)
       ELSE
       LET cell_start == SkipWhile(i, size, LAMBDA k : _isspace(B(d, p + k)))
           e == SkipWhile(cell_start, size,
                    LAMBDA k : B(d, p + k) # "|" \/ (k > 0 /\ B(d, p + k - 1) = BSL))
           cell_end == SkipBack(e - 1, cell_start, LAMBDA k : _isspace(B(d, p + k)))
           w == Call("parse_inline", << [a EXCEPT !.ob = << >>], d, p + cell_start,
                                        1 + cell_end - cell_start >>)
           r == CallVoid([w EXCEPT !.ob = st.ob], "table_cell",
                         CellFlags(col_data[col + 1] \cup header_flag) \o w.ob)
       IN Call("row_cells", << rndr_popbuf(r, BUFFER_SPAN), d, p, size, columns, col_data,
                               header_flag, col + 1, e + 1 >>)

\* parse_table_row(ob, rndr, data, size, columns, col_data, header_flag)
parse_table_row(st, d, p, size, columns, col_data, header_flag) ==
    IF ~has_cb("table_cell") \/ ~has_cb("table_row") THEN st
    ELSE
    LET a == Call("rndr_newbuf", << st, BUFFER_SPAN >>)
    IN IF a.ret = 0 THEN a
       ELSE
       LET c == Call("row_cells", << [a EXCEPT !.ob = << >>], d, p, size, columns, col_data,
                                     header_flag, 0, IF size > 0 /\ B(d, p) = "|" THEN 1 ELSE 0 >>)
       IN IF c.ret = 0 THEN [c EXCEPT !.ob = st.ob]
          ELSE rndr_popbuf(CallVoid([c EXCEPT !.ob = st.ob], "table_row", c.ob),
                           BUFFER_SPAN)

\* the loop of parse_table_header over the header underline: the number of
\* columns it accepted and their alignment flags
under_cols(d, p, under_end, columns, col, i, col_data) ==
    IF col >= columns \/ i >= under_end THEN [col |-> col, col_data |-> col_data]
    ELSE
    LET i1 == SkipWhile(i, under_end, LAMBDA k : B(d, p + k) = SP)
        left == B(d, p + i1) = ":"
        i2 == IF left THEN i1 + 1 ELSE i1
        i3 == SkipWhile(i2, under_end, LAMBDA k : B(d, p + k) = "-")
        right == i3 < under_end /\ B(d, p + i3) = ":"
        i4 == IF right THEN i3 + 1 ELSE i3
        i5 == SkipWhile(i4, under_end, LAMBDA k : B(d, p + k) = SP)
        dashes == (i3 - i2) + (IF left THEN 1 ELSE 0) + (IF right THEN 1 ELSE 0)
        cd == [col_data EXCEPT ![col + 1] =
                 (IF left THEN {MKD_TABLE_ALIGN_L} ELSE {})
                 \cup (IF right THEN {MKD_TABLE_ALIGN_R} ELSE {})]
    IN IF (i5 < under_end /\ B(d, p + i5) # "|") \/ dashes < 3
       THEN [col |-> col, col_data |-> cd]
       ELSE Call("under_cols", << d, p, under_end, columns, col + 1, i5 + 1, cd >>)

\* data[a..b) without the spaces around it is  optional ":", one or more
\* "-", optional ":"
UnderCellShape(d, p, a, b) ==
    LET a1 == SkipWhile(a, b, LAMBDA k : B(d, p + k) = SP)
        b1 == SkipBack(b, a1, LAMBDA k : B(d, p + k - 1) = SP)
        a2 == IF a1 < b1 /\ B(d, p + a1) = ":" THEN a1 + 1 ELSE a1
        b2 == IF a2 < b1 /\ B(d, p + b1 - 1) = ":" THEN b1 - 1 ELSE b1
    IN a2 < b2 /\ \A k \in a2..(b2 - 1) : B(d, p + k) = "-"

\* the underline data[u0..under_end), cut at its "|", has one cell of that
\* shape for each column
UnderlineShape(d, p, u0, under_end, columns) ==
    LET pipes == {k \in u0..(under_end - 1) : B(d, p + k) = "|"}
        starts == {k \in {u0} \cup {m + 1 : m \in pipes} : k < under_end}
        stop(a) == IF \E m \in pipes : m >= a
                   THEN CHOOSE m \in pipes : m >= a /\ \A n \in pipes : n >= a => m <= n
                   ELSE under_end
    IN /\ Cardinality(starts) = columns
       /\ \A a \in starts : UnderCellShape(d, p, a, stop(a))

\* parse_table_header(ob, rndr, data, size, &columns, &column_data): ret and,
\* in the fields columns and col_data, the two results
parse_table_header(st, d, p, size) ==
    LET i == SkipWhile(0, size, LAMBDA k : B(d, p + k) # NL)
        pipes0 == Cardinality({k \in 0..(i - 1) : B(d, p + k) = "|"})
        none == [st EXCEPT !.ret = 0, !.columns = 0, !.col_data = << >>]
    IN IF i = size \/ pipes0 = 0 THEN none
       ELSE
       LET header_end == SkipBack(i, 0, LAMBDA k : _isspace(B(d, p + k - 1)))
           pipes == pipes0 - (IF B(d, p) = "|" THEN 1 ELSE 0)
                           - (IF header_end # 0 /\ B(d, p + header_end - 1) = "|"
                              THEN 1 ELSE 0)
           columns == pipes + 1
           u0 == IF i + 1 < size /\ B(d, p + i + 1) = "|" THEN i + 2 ELSE i + 1
           under_end == SkipWhile(u0, size, LAMBDA k : B(d, p + k) # NL)
           u == Call("under_cols", << d, p, under_end, columns, 0, u0, [k \in 1..columns |-> {}] >>)
           \* history: whether the underline has the shape, whether it was
           \* accepted, and the alignments it gave
           g == << UnderlineShape(d, p, u0, under_end, columns), u.col >= columns >>
       IN IF u.col < columns THEN [none EXCEPT !.g_under = @ \cup {g}]
          ELSE [Call("parse_table_row", << [st EXCEPT !.g_under = @ \cup {g}],
                                           d, p, header_end, columns, u.col_data,
                                           {MKD_TABLE_HEADER} >>)
                  EXCEPT !.ret = under_end + 1, !.columns = columns,
                         !.col_data = u.col_data]

\* the loop of parse_table over the body rows; the buffer written is
\* body_work, ret is i when the loop ends
table_rows(st, d, p, size, columns, col_data, i) ==
    IF i >= size THEN Ret(st, i)
    ELSE
    LET e == SkipWhile(i, size, LAMBDA k : B(d, p + k) # NL)
        pipes == Cardinality({k \in i..(e - 1) : B(d, p + k) = "|"})
    IN IF pipes = 0 \/ e = size THEN Ret(st, i)
       ELSE Call("table_rows", << Call("parse_table_row", << st, d, p + i, e - i, columns, col_data, {} >>),
                                  d, p, size, columns, col_data, e + 1 >>)

\* parse_table(ob, rndr, data, size)
parse_table(st, d, p, size) ==
    LET a == Call("rndr_newbuf", << st, BUFFER_SPAN >>)
    IN IF a.ret = 0 THEN Ret(a, 0)
       ELSE
       LET b == Call("rndr_newbuf", << a, BUFFER_BLOCK >>)
       IN IF b.ret = 0 THEN Ret(b, 0)
          ELSE
          LET h == Call("parse_table_header", << [b EXCEPT !.ob = << >>], d, p, size >>)
              pop(s) == rndr_popbuf(rndr_popbuf(s, BUFFER_SPAN), BUFFER_BLOCK)
          IN IF h.ret > 0
             THEN LET w == Call("table_rows", << [h EXCEPT !.ob = << >>], d, p, size,
                                                 h.columns, h.col_data, h.ret >>)
                      r == IF has_cb("table")
                           THEN CallVoid([w EXCEPT !.ob = st.ob], "table",
                                         h.ob \o << "|" >> \o w.ob)
                           ELSE [w EXCEPT !.ob = st.ob]
                  IN Ret(pop(r), w.ret)
             ELSE Ret(pop([h EXCEPT !.ob = st.ob]), 0)

\* the rules of parse_block, in the order its if-else chain tests them
BlockRules == << "atxheader", "htmlblock", "empty", "hrule", "fencedcode", "table",
                 "blockquote", "blockcode", "ulist", "olist", "paragraph" >>

\* does the rule match the line at data: the condition of its branch of the
\* chain of parse_block, on its own
rule_matches(name, d, p, end, html_ok, table_ok) ==
    CASE name = "atxheader" -> Call("is_atxheader", << d, p, end >>)
      [] name = "htmlblock" -> html_ok
      [] name = "empty" -> is_empty(d, p, end) # 0
      [] name = "hrule" -> Call("is_hrule", << d, p, end >>)
      [] name = "fencedcode" -> "fenced_code" \in ext_flags
                                /\ Call("is_codefence", << d, p, end >>).len # 0
      [] name = "table" -> table_ok
      [] name = "blockquote" -> prefix_quote(d, p, end) # 0
      [] name = "blockcode" -> prefix_code(d, p, end) # 0
      [] name = "ulist" -> Call("prefix_uli", << d, p, end >>) # 0
      [] name = "olist" -> Call("prefix_oli", << d, p, end >>) # 0
      [] name = "paragraph" -> TRUE

\* the first rule of the chain that matches the line at data
first_rule(d, p, end, html_ok, table_ok) ==
    BlockRules[CHOOSE k \in 1..Len(BlockRules) :
                  /\ rule_matches(BlockRules[k], d, p, end, html_ok, table_ok)
                  /\ \A j \in 1..(k - 1) :
                        ~rule_matches(BlockRules[j], d, p, end, html_ok, table_ok)]

\* the history of an iteration of parse_block: the rule applied, whether
\* it is not the first that matches or the rules tried before it wrote or
\* called back (allocations succeeding), and whether a horizontal rule was
\* applied to a line that prefix_uli accepts
RuleApplied(r, name, first, clean, uli) ==
    [r EXCEPT !.g_rules = @ \cup {name},
              !.g_rulebad = @ \/ /\ alloc_fail.at = 0
                                  /\ \/ name # first
                                     \/ /\ name \in {"blockquote", "blockcode", "ulist",
                                                      "olist", "paragraph"}
                                        /\ ~clean,
              !.g_hrlist = @ \/ (name = "hrule" /\ uli)]

\* a parse_block that tests prefix_uli before is_hrule
block_rule_listfirst(st, d, p, end) ==
    LET html == IF B(d, p) = "<" /\ has_cb("blockhtml")
                THEN Call("parse_htmlblock", << st, d, p, end, TRUE >>) ELSE Ret(st, 0)
        fence == IF "fenced_code" \in ext_flags
                 THEN Call("parse_fencedcode", << st, d, p, end >>) ELSE Ret(st, 0)
        s1 == IF "fenced_code" \in ext_flags THEN fence ELSE st
        table == IF "tables" \in ext_flags
                 THEN Call("parse_table", << s1, d, p, end >>) ELSE Ret(s1, 0)
        s2 == IF "tables" \in ext_flags THEN table ELSE s1
        Rule(name, r) ==
            RuleApplied(r, name, first_rule(d, p, end, html.ret # 0, table.ret # 0),
                        s2.ob = st.ob /\ s2.ncb = st.ncb,
                        Call("prefix_uli", << d, p, end >>) # 0)
    IN IF Call("is_atxheader", << d, p, end >>)
       THEN Rule("atxheader", Call("parse_atxheader", << st, d, p, end >>))
       ELSE IF html.ret # 0 THEN Rule("htmlblock", html)
       ELSE IF is_empty(d, p, end) # 0 THEN Rule("empty", Ret(st, is_empty(d, p, end)))
       ELSE IF Call("prefix_uli", << d, p, end >>) # 0
       THEN Rule("ulist", Call("parse_list", << st, d, p, end, {} >>))
       ELSE IF Call("is_hrule", << d, p, end >>)
       THEN Rule("hrule",
                 Ret(IF has_cb("hrule") THEN CallVoid(st, "hrule", << >>) ELSE st,
                     SkipWhile(0, end, LAMBDA k : B(d, p + k) # NL) + 1))
       ELSE IF fence.ret # 0 THEN Rule("fencedcode", fence)
       ELSE IF table.ret # 0 THEN Rule("table", table)
       ELSE IF prefix_quote(d, p, end) # 0
       THEN Rule("blockquote", Call("parse_blockquote", << s2, d, p, end >>))
       ELSE IF prefix_code(d, p, end) # 0
       THEN Rule("blockcode", Call("parse_blockcode", << s2, d, p, end >>))
       ELSE IF Call("prefix_oli", << d, p, end >>) # 0
       THEN Rule("olist", Call("parse_list", << s2, d, p, end, {MKD_LIST_ORDERED} >>))
       ELSE Rule("paragraph", Call("parse_paragraph", << s2, d, p, end >>))

\* one iteration of parse_block's loop at data: the rule that applies and
\* the number of bytes it consumes, in ret
block_rule(st, d, p, end) ==
    LET html == IF B(d, p) = "<" /\ has_cb("blockhtml")
                THEN Call("parse_htmlblock", << st, d, p, end, TRUE >>) ELSE Ret(st, 0)
        fence == IF "fenced_code" \in ext_flags
                 THEN Call("parse_fencedcode", << st, d, p, end >>) ELSE Ret(st, 0)
        s1 == IF "fenced_code" \in ext_flags THEN fence ELSE st
        table == IF "tables" \in ext_flags
                 THEN Call("parse_table", << s1, d, p, end >>) ELSE Ret(s1, 0)
        s2 == IF "tables" \in ext_flags THEN table ELSE s1
        Rule(name, r) ==
            RuleApplied(r, name, first_rule(d, p, end, html.ret # 0, table.ret # 0),
                        s2.ob = st.ob /\ s2.ncb = st.ncb,
                        Call("prefix_uli", << d, p, end >>) # 0)
    IN IF Call("is_atxheader", << d, p, end >>)
       THEN Rule("atxheader", Call("parse_atxheader", << st, d, p, end >>))
       ELSE IF html.ret # 0 THEN Rule("htmlblock", html)
       ELSE IF is_empty(d, p, end) # 0 THEN Rule("empty", Ret(st, is_empty(d, p, end)))
       ELSE IF Call("is_hrule", << d, p, end >>)
       THEN Rule("hrule",
                 Ret(IF has_cb("hrule") THEN CallVoid(st, "hrule", << >>) ELSE st,
                     SkipWhile(0, end, LAMBDA k : B(d, p + k) # NL) + 1))
       ELSE IF fence.ret # 0 THEN Rule("fencedcode", fence)
       ELSE IF table.ret # 0 THEN Rule("table", table)
       ELSE IF prefix_quote(d, p, end) # 0
       THEN Rule("blockquote", Call("parse_blockquote", << s2, d, p, end >>))
       ELSE IF prefix_code(d, p, end) # 0
       THEN Rule("blockcode", Call("parse_blockcode", << s2, d, p, end >>))
       ELSE IF Call("prefix_uli", << d, p, end >>) # 0
       THEN Rule("ulist", Call("parse_list", << s2, d, p, end, {} >>))
       ELSE IF Call("prefix_oli", << d, p, end >>) # 0
       THEN Rule("olist", Call("parse_list", << s2, d, p, end, {MKD_LIST_ORDERED} >>))
       ELSE Rule("paragraph", Call("parse_paragraph", << s2, d, p, end >>))

\* a rule returned 0 and the loop of parse_block repeats the same iteration
\* for ever: no bufnew() failed in it, or it left the pools as it found them
\* and every later bufnew() fails too
Spins(st, r) ==
    /\ r.ret = 0
    /\ \/ r.g_nfail = st.g_nfail
       \/ /\ r.work_bufs = st.work_bufs
          /\ AllocFails(r.nalloc + 1)

\* the loop of parse_block from  while (beg < size),  at position bg
block_loop(st, d, p, size, bg) ==
    IF bg >= size THEN st
    ELSE LET r == Call("block_rule", << st, d, p + bg, size - bg >>)
         IN IF Spins(st, r) THEN [r EXCEPT !.g_spin = TRUE]
            ELSE Call("block_loop", << r, d, p, size, bg + r.ret >>)

\* parse_block(ob, rndr, data, size)
parse_block(st, d, p, size) ==
    LET r == IF NestingGuard(st)
             THEN [st EXCEPT !.g_pblock = TRUE]
             ELSE Call("block_loop", << [st EXCEPT !.g_maxdesc = Max(@, PoolDepth(st)),
                                                   !.g_pblock = TRUE],
                                        d, p, size, 0 >>)
    IN IF PoolDepth(st) > max_nesting
       THEN [r EXCEPT !.g_tripped = TRUE,
                      !.g_guardwrote = @ \/ r.ob # st.ob \/ r.ncb # st.ncb]
       ELSE r

(***************************************************************************)
(* The first pass: reference and footnote definitions, line normalising.   *)
(***************************************************************************)

\* the 0..3 leading spaces is_footnote and is_ref accept, 4 when there are more
RefIndent(d, bg) ==
    IF B(d, bg) # SP THEN 0
    ELSE IF B(d, bg + 1) # SP THEN 1
    ELSE IF B(d, bg + 2) # SP THEN 2
    ELSE IF B(d, bg + 3) # SP THEN 3
    ELSE 4

\* the position after the line terminator at i, as is_footnote steps over it
SkipEol(d, end, i) ==
    IF i < end /\ B(d, i) \in {NL, CR}
    THEN IF i + 1 < end /\ B(d, i + 1) = NL /\ B(d, i) = CR THEN i + 2 ELSE i + 1
    ELSE i

\* the loop of is_footnote that gathers the contents: [start, contents]
footnote_lines(d, end, i0, start, in_empty, contents) ==
    IF i0 >= end THEN [start |-> start, contents |-> contents]
    ELSE
    LET i == SkipWhile(i0, end, LAMBDA k : B(d, k) \notin {NL, CR})
        ind == SkipWhile(0, Min(4, end - start), LAMBDA k : B(d, start + k) = SP)
    IN IF is_empty(d, start, i - start) # 0
       THEN Call("footnote_lines", << d, end, SkipEol(d, end, i), SkipEol(d, end, i), TRUE, contents >>)
       ELSE IF in_empty /\ ind = 0 THEN [start |-> start, contents |-> contents]
       ELSE Call("footnote_lines", << d, end, SkipEol(d, end, i), SkipEol(d, end, i), FALSE,
                                      contents \o (IF in_empty THEN << NL >> ELSE << >>)
                                               \o Slice(d, start + ind, i - start - ind)
                                               \o (IF i < end THEN << NL >> ELSE << >>) >>)

NoDef == [ok |-> FALSE, last |-> 0, id |-> << >>, link |-> << >>, title |-> << >>,
          contents |-> << >>]

\* is_footnote(data, beg, end, &last, list): ok, and the position last, the
\* key and the contents of the definition found
is_footnote(d, bg, end) ==
    IF bg + 3 >= end \/ RefIndent(d, bg) = 4 THEN NoDef
    ELSE
    LET i == bg + RefIndent(d, bg)
        id_offset == i + 2
        id_end == SkipWhile(id_offset, end, LAMBDA k : B(d, k) \notin {NL, CR, "]"})
        i3 == SkipWhile(id_end + 2, end, LAMBDA k : B(d, k) = SP)
        i4 == IF i3 < end /\ B(d, i3) \in {NL, CR}
              THEN (IF i3 + 1 < end /\ B(d, i3 + 1) = NL /\ B(d, i3) = CR
                    THEN i3 + 2 ELSE i3 + 1)
              ELSE i3
        i5 == SkipWhile(i4, end, LAMBDA k : B(d, k) = SP)
    IN IF B(d, i) # "[" THEN NoDef
       ELSE IF i + 1 >= end \/ B(d, i + 1) # "^" THEN NoDef
       ELSE IF id_end >= end \/ B(d, id_end) # "]" THEN NoDef
       ELSE IF id_end + 1 >= end \/ B(d, id_end + 1) # ":" THEN NoDef
       ELSE IF i5 >= end \/ B(d, i5) \in {NL, CR} THEN NoDef
       ELSE LET l == Call("footnote_lines", << d, end, i5, i5, FALSE, << >> >>)
            IN [NoDef EXCEPT !.ok = TRUE, !.last = l.start,
                             !.id = Slice(d, id_offset, id_end - id_offset),
                             !.contents = l.contents]

\* is_ref(data, beg, end, &last, refs): ok, and the position last, the key,
\* the link and the title of the definition found
is_ref(d, bg, end) ==
    LET \* the title, from the end i10 of the line it would be on
        Title(i, id_end, i5, link_offset, link_end, i8, le1, i9, i10) ==
            LET has_title == i9 + 1 < end /\ B(d, i9) \in {SQ, DQ, "("}
                title_offset == IF has_title THEN i9 + 1 ELSE 0
                te0 == IF i10 + 1 < end /\ B(d, i10) = NL /\ B(d, i10 + 1) = CR
                       THEN i10 + 1 ELSE i10
                i11 == SkipBack(i10 - 1, title_offset, LAMBDA k : B(d, k) = SP)
                closed == has_title /\ i11 > title_offset /\ B(d, i11) \in {SQ, DQ, ")"}
                line_end == IF closed THEN te0 ELSE le1
                title_end == IF closed THEN i11 ELSE IF has_title THEN te0 ELSE 0
            IN IF B(d, i) # "[" THEN NoDef
               ELSE IF id_end >= end \/ B(d, id_end) # "]" THEN NoDef
               ELSE IF id_end + 1 >= end \/ B(d, id_end + 1) # ":" THEN NoDef
               ELSE IF i5 >= end THEN NoDef
               ELSE IF i8 < end /\ B(d, i8) \notin {NL, CR, SQ, DQ, "("} THEN NoDef
               ELSE IF line_end = 0 \/ link_end = link_offset THEN NoDef
               ELSE [NoDef EXCEPT !.ok = TRUE, !.last = line_end,
                                  !.id = Slice(d, i + 1, id_end - (i + 1)),
                                  !.link = Slice(d, link_offset, link_end - link_offset),
                                  !.title = IF title_end > title_offset
                                            THEN Slice(d, title_offset, title_end - title_offset)
                                            ELSE << >>]
        \* the optional title on the same or on the next line, from the end
        \* le1 of the line of the link (0 when the link does not end its line)
        NextLine(i, id_end, i5, link_offset, link_end, i8, le1, i9) ==
            Title(i, id_end, i5, link_offset, link_end, i8, le1, i9,
                  SkipWhile(i9 + 1, end, LAMBDA k : B(d, k) \notin {NL, CR}))
        LineEnding(i, id_end, i5, link_offset, link_end, i8, le1) ==
            NextLine(i, id_end, i5, link_offset, link_end, i8, le1,
                     IF le1 # 0 THEN SkipWhile(le1 + 1, end, LAMBDA k : B(d, k) = SP)
                     ELSE i8)
        AfterLink(i, id_end, i5, link_offset, link_end, i8) ==
            LineEnding(i, id_end, i5, link_offset, link_end, i8,
                       IF i8 + 1 < end /\ B(d, i8) = NL /\ B(d, i8 + 1) = CR THEN i8 + 1
                       ELSE IF i8 >= end \/ B(d, i8) \in {CR, NL} THEN i8
                       ELSE 0)
        \* the link, from its first byte to the whitespace that ends it at i7
        Link(i, id_end, i5, link_offset, i7) ==
            AfterLink(i, id_end, i5, link_offset,
                      IF B(d, i7 - 1) = ">" THEN i7 - 1 ELSE i7,
                      SkipWhile(i7, end, LAMBDA k : B(d, k) = SP))
        LinkStart(i, id_end, i5, link_offset) ==
            Link(i, id_end, i5, link_offset,
                 SkipWhile(link_offset, end, LAMBDA k : B(d, k) \notin {SP, NL, CR}))
        \* the spacer after the colon: spaces, one optional newline, spaces
        Spacer(i, id_end, i5) ==
            LinkStart(i, id_end, i5, IF B(d, i5) = "<" THEN i5 + 1 ELSE i5)
        Newline(i, id_end, i3) ==
            Spacer(i, id_end,
                   SkipWhile(IF i3 < end /\ B(d, i3) \in {NL, CR}
                             THEN (IF i3 + 1 < end /\ B(d, i3 + 1) = CR /\ B(d, i3) = NL
                                   THEN i3 + 2 ELSE i3 + 1)
                             ELSE i3,
                             end, LAMBDA k : B(d, k) = SP))
        Colon(i, id_end) ==
            Newline(i, id_end, SkipWhile(id_end + 2, end, LAMBDA k : B(d, k) = SP))
        \* the id, from the bracket at i
        Id(i) ==
            Colon(i, SkipWhile(i + 1, end, LAMBDA k : B(d, k) \notin {NL, CR, "]"}))
    IN IF bg + 3 >= end \/ RefIndent(d, bg) = 4 THEN NoDef
       ELSE Id(bg + RefIndent(d, bg))

\* expand_tabs(ob, line, size): the bytes appended; tab is the column count
RECURSIVE expand_tabs(_, _, _)
\* expand_tabs(ob, line, size): the bytes appended; tab is the column count
expand_tabs(line, i, tab) ==
    IF i > Len(line) THEN << >>
    ELSE IF line[i] # TAB THEN << line[i] >> \o expand_tabs(line, i + 1, tab + 1)
    ELSE [k \in 1..(4 - (tab % 4)) |-> SP] \o expand_tabs(line, i + 1, tab + 4 - (tab % 4))

RECURSIVE newlines(_, _, _)
\* the loop of sd_markdown_render over the line terminators at end: one
\* "\n" per newline; [end, out]
newlines(d, end, out) ==
    IF end < Len(d) /\ B(d, end) \in {NL, CR}
    THEN newlines(d, end + 1,
                  IF B(d, end) = NL \/ (end + 1 < Len(d) /\ B(d, end + 1) # NL)
                  THEN Append(out, NL) ELSE out)
    ELSE [end |-> end, out |-> out]

\* the UTF-8 byte order mark
UTF8_BOM == << "EF", "BB", "BF" >>

(***************************************************************************)
(* sd_markdown_new and sd_markdown_render.                                 *)
(***************************************************************************)

\* the parser as sd_markdown_new leaves it and the empty output buffer,
\* with the tables reset as at the head of sd_markdown_render
sd_markdown_new ==
    [ob |-> << >>, ret |-> 0, ncb |-> 0, nalloc |-> 0,
     work_bufs |-> [t \in {BUFFER_BLOCK, BUFFER_SPAN} |->
                      IF t = BUFFER_BLOCK THEN stack_init(BLOCK_POOL_INIT)
                      ELSE stack_init(SPAN_POOL_INIT)],
     ilb |-> FALSE,
     refs |-> [b \in 0..(REF_TABLE_SIZE - 1) |-> << >>],
     found |-> << >>, used |-> << >>,
     flags |-> {}, columns |-> 0, col_data |-> << >>,
     g_calls |-> {}, g_text |-> 0, g_decl |-> "", g_acct_bad |-> FALSE,
     g_ilboff |-> FALSE, g_linkdepth |-> 0, g_dirty |-> {}, g_clean |-> {},
     g_redispatch |-> FALSE, g_over |-> FALSE, g_spin |-> FALSE,
     g_maxdesc |-> 0, g_tripped |-> FALSE, g_guardwrote |-> FALSE,
     g_autoinlink |-> FALSE, g_autofired |-> FALSE, g_resolved |-> << >>,
     g_crash |-> FALSE, g_defs |-> << >>, g_nfail |-> 0,
     g_ret0 |-> FALSE, g_retn |-> FALSE,
     g_fnrefs |-> << >>, g_fndefs |-> << >>, g_life |-> << >>,
     g_pblock |-> FALSE,
     g_rules |-> {}, g_rulebad |-> FALSE, g_hrlist |-> FALSE,
     g_fencemark |-> {}, g_paraend |-> {}, g_parabad |-> FALSE,
     g_escclose |-> FALSE, g_intra |-> {}, g_longclose |-> FALSE,
     g_under |-> {},
     bufsize |-> << >>,
     g_hw |-> [t \in {BUFFER_BLOCK, BUFFER_SPAN} |-> 0], g_maxdepth |-> 0]

\* a first pass that starts at the first byte whatever it is
FirstBegAtZero(doc) == 0

\* the position the first pass starts at: past a byte order mark
FirstBeg(doc) ==
    IF Len(doc) >= 3 /\ SubSeq(doc, 1, 3) = UTF8_BOM THEN 3 ELSE 0

\* one iteration of the first pass of sd_markdown_render on the line at bg:
\* a footnote definition, a reference definition, or a line copied to text.
\* The parser, the position and the staging buffer after it.
pass1_line(doc, bg, st, txt) ==
    LET fn == Call("is_footnote", << doc, bg, Len(doc) >>)
        rf == Call("is_ref", << doc, bg, Len(doc) >>)
        end == SkipWhile(bg, Len(doc), LAMBDA k : B(doc, k) \notin {NL, CR})
        nl == newlines(doc, end, << >>)
    IN IF "footnotes" \in ext_flags /\ fn.ok
       THEN [md |-> [st EXCEPT !.found = Append(@,
                          [id |-> hash_link_ref(fn.id), is_used |-> FALSE,
                           num |-> 0, contents |-> fn.contents])],
             beg |-> fn.last, text |-> txt]
       ELSE IF rf.ok
       THEN [md |-> [st EXCEPT
                       !.refs = add_link_ref(@, [id |-> hash_link_ref(rf.id),
                                                link |-> rf.link,
                                                title |-> rf.title]),
                       !.g_defs = Append(@, [id |-> hash_link_ref(rf.id),
                                             link |-> rf.link,
                                             title |-> rf.title])],
             beg |-> rf.last, text |-> txt]
       ELSE [md |-> st, beg |-> nl.end,
             text |-> txt \o (IF end > bg
                              THEN expand_tabs(Slice(doc, bg, end - bg), 1, 0)
                              ELSE << >>)
                         \o nl.out]

\* a call of the function name of markdown.c on the arguments a: every call
\* from one function of the parser to another goes through here
Call(name, a) ==
    CASE name = "rndr_newbuf" -> rndr_newbuf(a[1], a[2])
      [] name = "find_emph_loop" -> find_emph_loop(a[1], a[2], a[3], a[4], a[5])
      [] name = "find_emph_char" -> find_emph_char(a[1], a[2], a[3], a[4])
      [] name = "is_mail_autolink" -> is_mail_autolink(a[1], a[2], a[3])
      [] name = "tag_length" -> tag_length(a[1], a[2], a[3])
      [] name = "unscape_text" -> unscape_text(a[1], a[2])
      [] name = "inline_loop" -> inline_loop(a[1], a[2], a[3], a[4], a[5], a[6], a[7], a[8])
      [] name = "parse_inline" -> parse_inline(a[1], a[2], a[3], a[4])
      [] name = "EmphRender" -> EmphRender(a[1], a[2], a[3], a[4], a[5], a[6])
      [] name = "emph1_loop" -> emph1_loop(a[1], a[2], a[3], a[4], a[5], a[6])
      [] name = "parse_emph1" -> parse_emph1(a[1], a[2], a[3], a[4], a[5])
      [] name = "emph2_loop" -> emph2_loop(a[1], a[2], a[3], a[4], a[5], a[6])
      [] name = "parse_emph2" -> parse_emph2(a[1], a[2], a[3], a[4], a[5])
      [] name = "emph3_loop" -> emph3_loop(a[1], a[2], a[3], a[4], a[5], a[6])
      [] name = "parse_emph3" -> parse_emph3(a[1], a[2], a[3], a[4], a[5])
      [] name = "char_emphasis" -> char_emphasis(a[1], a[2], a[3], a[4], a[5])
      [] name = "char_linebreak" -> char_linebreak(a[1], a[2], a[3], a[4], a[5])
      [] name = "char_codespan" -> char_codespan(a[1], a[2], a[3], a[4], a[5])
      [] name = "char_escape" -> char_escape(a[1], a[2], a[3], a[4], a[5])
      [] name = "char_entity" -> char_entity(a[1], a[2], a[3], a[4], a[5])
      [] name = "char_langle_tag" -> char_langle_tag(a[1], a[2], a[3], a[4], a[5])
      [] name = "find_link_ref" -> find_link_ref(a[1], a[2])
      [] name = "find_footnote_ref" -> find_footnote_ref(a[1], a[2])
      [] name = "sd_autolink__www" -> sd_autolink__www(a[1], a[2], a[3], a[4])
      [] name = "sd_autolink__url" -> sd_autolink__url(a[1], a[2], a[3], a[4])
      [] name = "sd_autolink__email" -> sd_autolink__email(a[1], a[2], a[3], a[4])
      [] name = "char_autolink_www" -> char_autolink_www(a[1], a[2], a[3], a[4], a[5])
      [] name = "AutolinkVia" -> AutolinkVia(a[1], a[2])
      [] name = "char_autolink_email" -> char_autolink_email(a[1], a[2], a[3], a[4], a[5])
      [] name = "char_autolink_url" -> char_autolink_url(a[1], a[2], a[3], a[4], a[5])
      [] name = "link_txt_end" -> link_txt_end(a[1], a[2], a[3], a[4], a[5], a[6])
      [] name = "link_url_end" -> link_url_end(a[1], a[2], a[3], a[4])
      [] name = "link_title_end" -> link_title_end(a[1], a[2], a[3], a[4], a[5], a[6])
      [] name = "link_id_nl" -> link_id_nl(a[1], a[2], a[3], a[4])
      [] name = "InlineLinkScan" -> InlineLinkScan(a[1], a[2], a[3], a[4])
      [] name = "LinkRender" -> LinkRender(a[1], a[2], a[3], a[4], a[5], a[6], a[7], a[8], a[9], a[10])
      [] name = "char_link" -> char_link(a[1], a[2], a[3], a[4], a[5])
      [] name = "char_superscript" -> char_superscript(a[1], a[2], a[3], a[4], a[5])
      [] name = "dispatch" -> dispatch(a[1], a[2], a[3], a[4], a[5], a[6])
      [] name = "is_hrule" -> is_hrule(a[1], a[2], a[3])
      [] name = "prefix_codefence" -> prefix_codefence(a[1], a[2], a[3])
      [] name = "is_codefence" -> is_codefence(a[1], a[2], a[3])
      [] name = "is_atxheader" -> is_atxheader(a[1], a[2], a[3])
      [] name = "is_headerline" -> is_headerline(a[1], a[2], a[3])
      [] name = "is_next_headerline" -> is_next_headerline(a[1], a[2], a[3])
      [] name = "prefix_oli" -> prefix_oli(a[1], a[2], a[3])
      [] name = "prefix_uli" -> prefix_uli(a[1], a[2], a[3])
      [] name = "quote_loop" -> quote_loop(a[1], a[2], a[3], a[4], a[5], a[6], a[7])
      [] name = "parse_blockquote" -> parse_blockquote(a[1], a[2], a[3], a[4])
      [] name = "htmlblock_end_tag" -> htmlblock_end_tag(a[1], a[2], a[3], a[4])
      [] name = "htmlblock_end_loop" -> htmlblock_end_loop(a[1], a[2], a[3], a[4], a[5], a[6], a[7])
      [] name = "htmlblock_end" -> htmlblock_end(a[1], a[2], a[3], a[4], a[5])
      [] name = "htmlblock_len" -> htmlblock_len(a[1], a[2], a[3])
      [] name = "parse_htmlblock" -> parse_htmlblock(a[1], a[2], a[3], a[4], a[5])
      [] name = "para_loop" -> para_loop(a[1], a[2], a[3], a[4])
      [] name = "BlockInline" -> BlockInline(a[1], a[2], a[3], a[4], a[5], a[6])
      [] name = "parse_paragraph" -> parse_paragraph(a[1], a[2], a[3], a[4])
      [] name = "fence_loop" -> fence_loop(a[1], a[2], a[3], a[4], a[5])
      [] name = "parse_fencedcode" -> parse_fencedcode(a[1], a[2], a[3], a[4])
      [] name = "code_loop" -> code_loop(a[1], a[2], a[3], a[4], a[5])
      [] name = "parse_blockcode" -> parse_blockcode(a[1], a[2], a[3], a[4])
      [] name = "item_loop" -> item_loop(a[1], a[2], a[3], a[4], a[5])
      [] name = "parse_listitem" -> parse_listitem(a[1], a[2], a[3], a[4], a[5])
      [] name = "list_loop" -> list_loop(a[1], a[2], a[3], a[4], a[5], a[6])
      [] name = "parse_list" -> parse_list(a[1], a[2], a[3], a[4], a[5])
      [] name = "parse_atxheader" -> parse_atxheader(a[1], a[2], a[3], a[4])
      [] name = "parse_footnote_def" -> parse_footnote_def(a[1], a[2], a[3])
      [] name = "footnote_items" -> footnote_items(a[1], a[2])
      [] name = "parse_footnote_list" -> parse_footnote_list(a[1])
      [] name = "row_cells" -> row_cells(a[1], a[2], a[3], a[4], a[5], a[6], a[7], a[8], a[9])
      [] name = "parse_table_row" -> parse_table_row(a[1], a[2], a[3], a[4], a[5], a[6], a[7])
      [] name = "under_cols" -> under_cols(a[1], a[2], a[3], a[4], a[5], a[6], a[7])
      [] name = "parse_table_header" -> parse_table_header(a[1], a[2], a[3], a[4])
      [] name = "table_rows" -> table_rows(a[1], a[2], a[3], a[4], a[5], a[6], a[7])
      [] name = "parse_table" -> parse_table(a[1], a[2], a[3], a[4])
      [] name = "block_rule" -> block_rule(a[1], a[2], a[3], a[4])
      [] name = "block_loop" -> block_loop(a[1], a[2], a[3], a[4], a[5])
      [] name = "parse_block" -> parse_block(a[1], a[2], a[3], a[4])
      [] name = "footnote_lines" -> footnote_lines(a[1], a[2], a[3], a[4], a[5], a[6])
      [] name = "is_footnote" -> is_footnote(a[1], a[2], a[3])
      [] name = "is_ref" -> is_ref(a[1], a[2], a[3])
      [] name = "pass1_line" -> pass1_line(a[1], a[2], a[3], a[4])

\* one iteration of the first pass
Pass1 ==
    /\ pc = "pass1"
    /\ beg < Len(document)
    /\ LET Store(l) == /\ md' = l.md
                        /\ beg' = l.beg
                        /\ text' = l.text
       IN Store(Call("pass1_line", << document, beg, md, text >>))
    /\ UNCHANGED <<buf, options, pc, document, ext_flags, cb_absent, cb_decline, max_nesting,
                   alloc_fail>>

\* a doc_header callback that does not wait for the end of the first pass
DocHeaderEarly ==
    /\ pc = "pass1"
    /\ md' = [(IF has_cb("doc_header") THEN CallVoid(md, "doc_header", << >>) ELSE md)
                EXCEPT !.g_pblock = Len(text) > 0]
    /\ text' = IF Len(text) > 0 /\ text[Len(text)] \notin {NL, CR}
               THEN Append(text, NL) ELSE text
    /\ beg' = 0
    /\ pc' = "body"
    /\ UNCHANGED <<buf, options, document, ext_flags, cb_absent, cb_decline, max_nesting,
                   alloc_fail>>

\* the end of the first pass: doc_header, and the final newline of text
DocHeader ==
    /\ pc = "pass1"
    /\ beg >= Len(document)
    /\ md' = [(IF has_cb("doc_header") THEN CallVoid(md, "doc_header", << >>) ELSE md)
                EXCEPT !.g_pblock = Len(text) > 0]
    /\ text' = IF Len(text) > 0 /\ text[Len(text)] \notin {NL, CR}
               THEN Append(text, NL) ELSE text
    /\ beg' = 0
    /\ pc' = "body"
    /\ UNCHANGED <<buf, options, document, ext_flags, cb_absent, cb_decline, max_nesting,
                   alloc_fail>>

\* one iteration of the loop of the top-level parse_block(ob, md, text->data,
\* text->size); the pools are empty there, the recursion guard does not trip
BlockStep ==
    /\ pc = "body"
    /\ beg < Len(text)
    /\ LET Advance(r) ==
               IF Spins(md, r)
               THEN /\ md' = [r EXCEPT !.g_spin = TRUE]
                    /\ beg' = beg
                    /\ pc' = "hung"
               ELSE /\ md' = r
                    /\ beg' = beg + r.ret
                    /\ pc' = pc
       IN Advance(Call("block_rule", << [md EXCEPT !.g_maxdesc = Max(@, PoolDepth(md))],
                                        text, beg, Len(text) - beg >>))
    /\ UNCHANGED <<buf, options, document, ext_flags, cb_absent, cb_decline, max_nesting,
                   alloc_fail, text>>

\* after parse_block: the footnotes
FootnoteList ==
    /\ pc = "body"
    /\ beg >= Len(text)
    /\ md' = IF "footnotes" \in ext_flags THEN Call("parse_footnote_list", << md >>) ELSE md
    /\ pc' = "footer"
    /\ UNCHANGED <<buf, options, document, ext_flags, cb_absent, cb_decline, max_nesting,
                   alloc_fail, text, beg>>

\* a render that calls outline before doc_footer
DocFooterAfterOutline ==
    /\ pc = "footer"
    /\ md' = IF has_cb("doc_footer")
             THEN CallVoid(CallVoid(md, "outline", << >>), "doc_footer", << >>)
             ELSE md
    /\ pc' = "outline"
    /\ UNCHANGED <<buf, options, document, ext_flags, cb_absent, cb_decline, max_nesting,
                   alloc_fail, text, beg>>

\* doc_footer
DocFooter ==
    /\ pc = "footer"
    /\ md' = IF has_cb("doc_footer") THEN CallVoid(md, "doc_footer", << >>) ELSE md
    /\ pc' = "outline"
    /\ UNCHANGED <<buf, options, document, ext_flags, cb_absent, cb_decline, max_nesting,
                   alloc_fail, text, beg>>

\* outline
Outline ==
    /\ pc = "outline"
    /\ md' = IF has_cb("outline") THEN CallVoid(md, "outline", << >>) ELSE md
    /\ pc' = "cleanup"
    /\ UNCHANGED <<buf, options, document, ext_flags, cb_absent, cb_decline, max_nesting,
                   alloc_fail, text, beg>>

\* clean-up and the two closing asserts, which abort unless compiled out
CleanUp ==
    /\ pc = "cleanup"
    /\ text' = << >>
    /\ md' = [md EXCEPT !.refs = [b \in 0..(REF_TABLE_SIZE - 1) |-> << >>],
                        !.found = << >>, !.used = << >>]
    /\ \/ pc' = "done"
       \/ /\ PoolDepth(md) # 0
          /\ pc' = "abort"
    /\ UNCHANGED <<buf, options, document, ext_flags, cb_absent, cb_decline, max_nesting,
                   alloc_fail, beg>>

Next == Pass1 \/ DocHeader \/ BlockStep \/ FootnoteList \/ DocFooter \/ Outline
        \/ CleanUp

(***************************************************************************)
(* The inputs.  A document is a concatenation of at most MaxTokens          *)
(* fragments; a run is a document with the parser's configuration.         *)
(***************************************************************************)
MaxTokens == 2
MaxNesting == 3
MaxAllocAt == 4

EXT_NONE == {}
EXT_MAIN == {"autolink", "superscript", "footnotes", "strikethrough", "ins",
             "fenced_code", "tables"}
EXT_STRICT == EXT_MAIN \cup {"no_intra_emphasis", "lax_spacing", "space_headers"}

SpanTokens ==
    { << "a", NL >>,
      << "*", "b", "*", NL >>,
      << "*", "*", "b", "*", "*", NL >>,
      << BT, "f", BT, NL >>,
      << "[", "g", "]", "(", "h", ")", NL >>,
      << "!", "[", "p", "]", "(", "q", ")", NL >>,
      << "x", SP, SP, NL, "y", NL >>,
      << "2", "^", "3", NL >>,
      << "w", "w", "w", ".", "r", ".", "s", NL >>,
      << "t", "@", "u", ".", "v", NL >>,
      << "h", "t", "t", "p", ":", "/", "/", "z", NL >>,
      << "<", "b", ">", NL >>,
      << "<", "m", "@", "n", ".", "o", ">", NL >>,
      << "&", "l", "t", ";", NL >>,
      << "e", BSL, NL >>,
      << "[", "^", "n", "]", NL >>,
      << "[", "i", "]", NL >> }

DefTokens ==
    { << "[", "i", "]", ":", SP, "j", NL >>,
      << "[", "i", "]", ":", SP, "j", NL,
         "[", "I", "]", ":", SP, "k", SP, DQ, "T", DQ, NL >>,
      << "[", "I", "]", ":", SP, "k", SP, DQ, "T", DQ, NL,
         "[", "i", "]", ":", SP, "j", NL >>,
      << "[", "^", "n", "]", ":", SP, "m", NL, NL >> }

BlockTokens ==
    { << NL >>,
      << ">", SP, "c", NL >>,
      << ">", SP, ">", SP, "c", NL >>,
      << "-", SP, "d", NL >>,
      << "-", SP, "d", NL, NL, SP, SP, "-", SP, "e", NL >>,
      << "1", ".", SP, "o", NL >>,
      << "#", SP, "e", NL >>,
      << "#", NL >>,
      << "h", NL, "=", "=", "=", NL >>,
      << "*", "*", "*", NL >>,
      << "-", SP, "-", SP, "-", NL >>,
      << SP, SP, SP, SP, "c", NL >>,
      << "~", "~", "~", NL, "q", NL, "~", "~", "~", NL >>,
      << "~", "~", "~", NL, "q", NL >>,
      << "a", "|", "b", NL, "-", "-", "-", "|", "-", "-", "-", NL, "c", "|", "d", NL >>,
      << "<", "p", ">", "x", "<", "/", "p", ">", NL, NL >>,
      << "[", "a", SP, "[", "b", "]", "(", "c", ")", SP,
         "w", "w", "w", ".", "d", ".", "e", "]", "(", "f", ")", NL >>,
      << "*", "a", SP, "*", "*", "b", "*", "*", "*", NL >> }

NestTokens ==
    { << ">", SP, "c", NL >>,
      << ">", SP, ">", SP, "c", NL >>,
      << "-", SP, "d", NL >>,
      << ">", SP, "-", SP, "*", "d", "*", NL >>,
      << "*", "b", "*", NL >>,
      << "*", "a", SP, "*", "*", "b", "*", "*", "*", NL >>,
      << "[", "*", "g", "*", "]", "(", "h", ")", NL >>,
      << "#", SP, "e", NL >>,
      << NL >> }

AllocTokens ==
    { << "a", NL >>,
      << "*", "b", "*", NL >>,
      << "-", SP, "d", NL >>,
      << ">", SP, "c", NL >>,
      << "w", "w", "w", ".", "r", ".", "s", NL >>,
      << "[", "g", "]", "(", "h", ")", NL >>,
      << "a", "|", "b", NL, "-", "-", "-", "|", "-", "-", "-", NL, "c", "|", "d", NL >> }

SpanCallbacks == {"emphasis", "double_emphasis", "codespan", "link", "image",
                  "linebreak", "superscript", "autolink", "raw_html_tag",
                  "footnote_ref"}

RECURSIVE Docs(_, _)
\* the concatenations of at most n fragments of the set T
Docs(T, n) == IF n = 0 THEN { << >> }
              ELSE Docs(T, n - 1) \cup { dd \o t : dd \in Docs(T, n - 1), t \in T }

NoFail == [at |-> 0, persistent |-> FALSE]

Run(doc, ext, absent, decline, nest, fail) ==
    [doc |-> doc, ext |-> ext, absent |-> absent, decline |-> decline,
     nest |-> nest, fail |-> fail]

\* every fragment under the three sets of extensions
PlainRuns ==
    { Run(dd, e, {}, {}, 16, NoFail) :
        dd \in Docs(SpanTokens \cup DefTokens \cup BlockTokens, MaxTokens),
        e \in {EXT_NONE, EXT_MAIN, EXT_STRICT} }

\* nested constructs under small values of max_nesting
NestRuns ==
    { Run(dd, EXT_MAIN, {}, {}, n, NoFail) :
        dd \in Docs(NestTokens, MaxTokens), n \in 1..MaxNesting }

\* a bufnew() of rndr_newbuf failing, once or from then on
AllocRuns ==
    { Run(dd, EXT_MAIN, {}, {}, 16, [at |-> k, persistent |-> b]) :
        dd \in Docs(AllocTokens, MaxTokens), k \in 1..MaxAllocAt, b \in BOOLEAN }

\* one span callback declining
DeclineRuns ==
    { Run(dd, EXT_MAIN, {}, {c}, 16, NoFail) :
        dd \in Docs(SpanTokens \cup DefTokens, MaxTokens), c \in SpanCallbacks }

\* renderers that leave slots of struct sd_callbacks NULL
\* footnote references and definitions, a definition whose body holds the
\* first reference to another footnote among them
FootnoteTokens ==
    { << "[", "^", "n", "]", SP, "[", "^", "o", "]", SP, "[", "^", "n", "]", NL >>,
      << "[", "^", "o", "]", NL >>,
      << "[", "^", "p", "]", SP, "[", "^", "o", "]", NL >>,
      << "[", "^", "n", "]", ":", SP, "m", NL, NL >>,
      << "[", "^", "o", "]", ":", SP, "[", "^", "p", "]", SP, "[", "^", "o", "]", NL, NL,
         "[", "^", "p", "]", ":", SP, "z", NL, NL >>,
      << "[", "^", "n", "]", ":", SP, "m", NL, NL,
         "[", "^", "o", "]", ":", SP, "[", "^", "n", "]", NL, NL,
         "[", "^", "N", "]", ":", SP, "k", NL, NL >> }

FootnoteRuns ==
    { Run(dd, EXT_MAIN, a, c, 16, NoFail) :
        dd \in Docs(FootnoteTokens, MaxTokens),
        a \in { {}, {"footnote_ref"}, {"doc_header", "footnotes"}, {"doc_footer"} },
        c \in { {}, {"footnote_ref"} } }

\* documents that open with the byte order mark, or with a part of it
BomRuns ==
    { Run(b \o dd, e, {}, {}, 16, NoFail) :
        b \in { UTF8_BOM, << "EF", "BB" >> },
        dd \in Docs({ << "a", NL >>, << NL >>, << "[", "i", "]", ":", SP, "j", NL >> }, MaxTokens),
        e \in {EXT_NONE, EXT_MAIN} }

\* lines ended by "\n", by "\r\n" and by "\r", and lines with tabs
LineTokens ==
    { << "a", NL >>, << "a", CR, NL >>, << "a", CR >>, << CR >>, << NL >>,
      << TAB, "b", NL >>, << "a", TAB, "b", CR >>, << "a", CR, CR, NL >> }

LineRuns ==
    { Run(dd, EXT_NONE, {}, {}, 16, NoFail) : dd \in Docs(LineTokens, MaxTokens) }

\* list items that hold a fenced code block with lines that begin with a
\* list marker
FenceListTokens ==
    { << "-", SP, "a", NL, SP, SP, "~", "~", "~", NL, SP, SP, "-", SP, "b", NL,
         SP, SP, "~", "~", "~", NL >>,
      << "-", SP, "a", NL, SP, SP, "~", "~", "~", NL, "-", SP, "b", NL,
         SP, SP, "~", "~", "~", NL >>,
      << "-", SP, "a", NL, SP, SP, "~", "~", "~", NL, NL, "-", SP, "b", NL,
         SP, SP, "~", "~", "~", NL >>,
      << "-", SP, "a", NL, SP, SP, "~", "~", "~", NL, NL, SP, SP, "1", ".", SP, "b", NL,
         SP, SP, "~", "~", "~", NL >>,
      << "1", ".", SP, "a", NL, SP, SP, SP, "~", "~", "~", NL, SP, SP, SP, "*", SP, "b", NL,
         SP, SP, SP, "2", ".", SP, "c", NL, SP, SP, SP, "~", "~", "~", NL >> }

FenceListRuns ==
    { Run(dd, e, {}, {}, 16, NoFail) :
        dd \in Docs(FenceListTokens, MaxTokens), e \in {EXT_NONE, EXT_MAIN} }

\* emphasis and code spans with escapes, neighbours and inner delimiters
EmphTokens ==
    { << "*", "a", BSL, "*", "b", "*", NL >>,
      << "_", "a", BSL, "_", NL >>,
      << "*", "a", SP, BSL, "*", SP, "b", "*", NL >>,
      << "*", "b", "*", NL >>,
      << "(", "*", "b", "*", ")", NL >>,
      << DQ, "_", "b", "_", DQ, NL >>,
      << "a", "*", "b", "*", NL >>,
      << "a", SP, "*", "b", "*", NL >>,
      << "<", "b", ">", "*", "c", "*", NL >>,
      << BT, "a", BT, BT, "b", BT, NL >>,
      << BT, BT, "a", BT, "b", BT, BT, NL >>,
      << BT, BT, SP, "a", SP, BT, BT, BT, NL >>,
      << "a", NL >> }

EmphRuns ==
    { Run(dd, e, {}, {}, 16, NoFail) :
        dd \in Docs(EmphTokens, MaxTokens), e \in {EXT_NONE, EXT_STRICT} }

\* tables whose underline rows have short and long cells, with and without
\* colons
TableTokens ==
    { << "a", "|", "b", NL, "-", "|", "-", NL, "c", "|", "d", NL >>,
      << "a", "|", "b", NL, ":", "-", "|", "-", ":", NL, "c", "|", "d", NL >>,
      << "a", "|", "b", NL, ":", "-", "-", "|", ":", "-", ":", NL, "c", "|", "d", NL >>,
      << "|", "a", "|", "b", "|", NL, "|", "-", "-", "-", "|", "-", "-", ":", "|", NL >>,
      << "a", "|", "b", NL, "-", "-", "-", NL >>,
      << "a", "|", "b", NL, "-", "-", "-", "|", "x", "-", "-", NL >>,
      << "a", NL >> }

TableRuns ==
    { Run(dd, EXT_MAIN, {}, {}, 16, NoFail) : dd \in Docs(TableTokens, MaxTokens) }

\* the constructs that take the most work buffers, under small values of
\* max_nesting
DepthTokens ==
    { << ">", SP, "a", "|", "b", NL, ">", SP, "-", "-", "-", "|", "-", "-", "-", NL,
         ">", SP, "c", "|", "d", NL >>,
      << "a", "|", "b", NL, "-", "-", "-", "|", "-", "-", "-", NL, "c", "|", "d", NL >>,
      << "*", "[", "a", "]", "(", "b", SP, DQ, "c", DQ, ")", "*", NL >>,
      << "[", "*", "a", "*", "]", "(", "b", SP, DQ, "c", DQ, ")", NL >>,
      << "-", SP, "[", "a", "]", "(", "b", SP, DQ, "c", DQ, ")", NL >>,
      << ">", SP, "-", SP, "d", NL >> }

DepthRuns ==
    { Run(dd, EXT_MAIN, {}, {}, n, NoFail) :
        dd \in Docs(DepthTokens, 1), n \in 1..MaxNesting }

AbsentRuns ==
    { Run(dd, EXT_MAIN, a, {}, 16, NoFail) :
        dd \in Docs(SpanTokens, MaxTokens),
        a \in { {"normal_text"}, {"link", "image", "emphasis", "entity", "paragraph"} } }

Runs == PlainRuns \cup NestRuns \cup AllocRuns \cup DeclineRuns \cup AbsentRuns
        \cup FootnoteRuns \cup BomRuns \cup LineRuns \cup FenceListRuns
        \cup EmphRuns \cup TableRuns \cup DepthRuns

\* buffer.h and buffer.c: the cap on an allocation and the statuses
\* 1024 * 1024 * 16
BUFFER_MAX_ALLOC_SIZE == 16777216
BUF_OK == 0
BUF_ENOMEM == 0 - 1

\* bufnew(unit)
bufnew(unit) ==
    [data |-> << >>, size |-> 0, asize |-> 0, unit |-> unit,
     ret |-> BUF_OK, g_enomem |-> FALSE, ops |-> 0]

\* no buffer: the value of buf while a render is modelled
NoBuf == bufnew(0)

(***************************************************************************)
(* html.c and houdini_html_e.c.  The output buffer is a sequence of pieces: *)
(* a literal the renderer writes is one piece, a byte of text is one piece. *)
(***************************************************************************)
HTML_TOC == "HTML_TOC"
HTML_OUTLINE == "HTML_OUTLINE"

\* sdhtml_renderer(callbacks, options, render_flags): the options after the
\* memset and the flags, with an empty output buffer
sdhtml_renderer(render_flags) ==
    [renderer |-> "html",
     flags |-> render_flags,
     outline_data |-> [open_section_count |-> 0, current_level |-> 0],
     toc_data |-> [header_count |-> 0, current_level |-> 0, level_offset |-> 0],
     ob |-> << >>,
     ops |-> 0, done |-> FALSE,
     g_last |-> [op |-> "none", text |-> << >>, num |-> 0, from |-> 0, ok |-> TRUE],
     g_sections |-> {0}, g_levels |-> {0}]

\* sdhtml_toc_renderer(callbacks, options)
sdhtml_toc_renderer ==
    [sdhtml_renderer({HTML_TOC}) EXCEPT !.renderer = "toc"]

NoHtml == sdhtml_renderer({})

\* houdini_escape_html0(ob, src, size, secure); ok is whether the bufgrow
\* at its head succeeds
HTML_ESCAPES(c) ==
    CASE c = DQ -> "&quot;"
      [] c = "&" -> "&amp;"
      [] c = SQ -> "&#39;"
      [] c = "/" -> "&#47;"
      [] c = "<" -> "&lt;"
      [] c = ">" -> "&gt;"
      [] OTHER -> c

houdini_escape_html0(ob, src, secure, ok) ==
    IF ~ok THEN ob
    ELSE ob \o [k \in 1..Len(src) |->
                  IF src[k] = "/" /\ ~secure THEN "/" ELSE HTML_ESCAPES(src[k])]

\* escape_html(ob, source, length)
escape_html(ob, source, ok) == houdini_escape_html0(ob, source, FALSE, ok)

\* rndr_normal_text(ob, text, opaque)
rndr_normal_text(h, txt, ok) ==
    [h EXCEPT !.ob = escape_html(@, txt, ok)]

\* rndr_header(ob, text, level, opaque)
rndr_header(h, txt, level) ==
    LET o1 == IF Len(h.ob) # 0 THEN Append(h.ob, NL) ELSE h.ob
        closes == HTML_OUTLINE \in h.flags /\ h.outline_data.current_level >= level
        o2 == IF HTML_OUTLINE \in h.flags
              THEN (IF closes THEN Append(o1, "</section>") ELSE o1)
                   \o << "<section class=\"section", ToString(level), "\">\n" >>
              ELSE o1
        od == IF HTML_OUTLINE \in h.flags
              THEN [open_section_count |->
                        h.outline_data.open_section_count - (IF closes THEN 1 ELSE 0) + 1,
                    current_level |-> level]
              ELSE h.outline_data
        o3 == IF HTML_TOC \in h.flags
              THEN o2 \o << "<h", ToString(level), " id=\"toc_",
                            ToString(h.toc_data.header_count), "\">" >>
              ELSE o2 \o << "<h", ToString(level), ">" >>
    IN [h EXCEPT !.ob = o3 \o txt \o << "</h", ToString(level), ">\n" >>,
                 !.outline_data = od,
                 !.toc_data.header_count = IF HTML_TOC \in h.flags THEN @ + 1 ELSE @,
                 !.g_sections = @ \cup {od.open_section_count}
                                  \cup (IF closes
                                        THEN {h.outline_data.open_section_count - 1}
                                        ELSE {})]

\* rndr_finalize with the loop bound one short (a mutation)
rndr_finalize_short(h) ==
    IF HTML_OUTLINE \in h.flags
    THEN [h EXCEPT !.ob = @ \o [k \in 1..(h.outline_data.open_section_count - 1)
                                  |-> "\n</section>\n"]]
    ELSE h

\* rndr_finalize(ob, opaque)
rndr_finalize(h) ==
    IF HTML_OUTLINE \in h.flags
    THEN [h EXCEPT !.ob = @ \o [k \in 1..h.outline_data.open_section_count
                                  |-> "\n</section>\n"]]
    ELSE h

\* toc_header(ob, text, level, opaque)
toc_header(h, txt, level0, ok) ==
    LET cur == h.toc_data.current_level
        off == IF cur = 0 THEN level0 - 1 ELSE h.toc_data.level_offset
        level == level0 - off
        o1 == IF level > cur
              THEN h.ob \o [k \in 1..(level - cur) |-> "<ul>\n<li>\n"]
              ELSE IF level < cur
              THEN h.ob \o << "</li>\n" >>
                        \o [k \in 1..(cur - level) |-> "</ul>\n</li>\n"]
                        \o << "<li>\n" >>
              ELSE h.ob \o << "</li>\n<li>\n" >>
        o2 == o1 \o << "<a href=\"#toc_", ToString(h.toc_data.header_count), "\">" >>
    IN [h EXCEPT !.ob = Append(escape_html(o2, txt, ok), "</a>\n"),
                 !.toc_data = [header_count |-> @.header_count + 1,
                               current_level |-> level,
                               level_offset |-> off],
                 !.g_levels = @ \cup {level}]

\* toc_finalize(ob, opaque)
toc_finalize(h) ==
    [h EXCEPT !.ob = @ \o [k \in 1..h.toc_data.current_level |-> "</li>\n</ul>\n"],
              !.toc_data.current_level = IF @ > 0 THEN 0 ELSE @]

RECURSIVE footnote_p(_, _)
\* the loop of rndr_footnote_def that looks for the end of the first
\* paragraph, from position i: [pfound, i]
footnote_p(txt, i) ==
    IF i + 3 >= Len(txt) THEN [pfound |-> FALSE, i |-> i]
    ELSE IF txt[i + 1] # "<" THEN footnote_p(txt, i + 1)
    ELSE IF txt[i + 2] # "/" THEN footnote_p(txt, i + 2)
    ELSE IF txt[i + 3] # "p" /\ txt[i + 4] # "P" THEN footnote_p(txt, i + 3)
    ELSE IF txt[i + 4] # ">" THEN footnote_p(txt, i + 3)
    ELSE [pfound |-> TRUE, i |-> i]

\* the back-reference rndr_footnote_def writes
FootnoteAnchor(num) ==
    << "&nbsp;<a href=\"#fnref", ToString(num), "\" rev=\"footnote\">&#8617;</a>" >>

\* rndr_footnote_def(ob, text, num, opaque)
rndr_footnote_def(h, txt, num) ==
    LET f == footnote_p(txt, 0)
        o1 == h.ob \o << "\n<li id=\"fn", ToString(num), "\">\n" >>
        o2 == IF f.pfound
              THEN o1 \o SubSeq(txt, 1, f.i) \o FootnoteAnchor(num)
                      \o SubSeq(txt, f.i + 1, Len(txt))
              ELSE o1 \o txt
    IN [h EXCEPT !.ob = Append(o2, "</li>\n")]

Init ==
    /\ pc = "pass1"
    /\ \E run \in Runs :
         /\ document = run.doc
         /\ ext_flags = run.ext
         /\ cb_absent = run.absent
         /\ cb_decline = run.decline
         /\ max_nesting = run.nest
         /\ alloc_fail = run.fail
         /\ beg = FirstBeg(run.doc)
    /\ text = << >>
    /\ md = sd_markdown_new
    /\ buf = NoBuf
    /\ options = NoHtml

Spec == Init /\ [][Next]_vars

(***************************************************************************)
(* buffer.c.  A buffer is its fields unit, asize and size and its stored   *)
(* bytes data[0..size), kept as a sequence of runs [c, n] of n equal bytes *)
(* c, so that appends of megabytes stay small values.  ret is the status   *)
(* of the last call, g_enomem whether a bufgrow inside it failed, ops the  *)
(* number of calls made.  Every realloc() may fail: ok is its outcome.     *)
(***************************************************************************)
\* the number of calls made on one buffer
MaxBufOps == 3

RECURSIVE RunsLen(_)
\* the number of bytes a sequence of runs holds
RunsLen(runs) == IF runs = << >> THEN 0 ELSE runs[1].n + RunsLen(Tail(runs))

RECURSIVE DropFront(_, _)
\* the runs without their first len bytes: memmove(data, data + len, size)
DropFront(runs, len) ==
    IF len = 0 \/ runs = << >> THEN runs
    ELSE IF runs[1].n <= len THEN DropFront(Tail(runs), len - runs[1].n)
    ELSE << [runs[1] EXCEPT !.n = @ - len] >> \o Tail(runs)

\* memcpy(buf->data + buf->size, data, len) of len bytes c
PutRun(runs, c, len) == IF len = 0 THEN runs ELSE Append(runs, [c |-> c, n |-> len])

\* bufgrow(buf, neosz); the loop  while (neoasz < neosz) neoasz += unit
\* from asize + unit ends at asize + k * unit for the least k >= 1 that
\* reaches neosz
bufgrow(b, neosz, ok) ==
    IF neosz > BUFFER_MAX_ALLOC_SIZE THEN [b EXCEPT !.ret = BUF_ENOMEM, !.g_enomem = TRUE]
    ELSE IF b.asize >= neosz THEN [b EXCEPT !.ret = BUF_OK]
    ELSE LET k == Max(1, (neosz - b.asize + b.unit - 1) \div b.unit)
             neoasz == b.asize + k * b.unit
         IN IF ~ok THEN [b EXCEPT !.ret = BUF_ENOMEM, !.g_enomem = TRUE]
            ELSE [b EXCEPT !.asize = neoasz, !.ret = BUF_OK]

\* a bufput that copies whether or not the buffer could grow
bufput_unchecked(b, c, len, ok) ==
    [b EXCEPT !.data = PutRun(@, c, len), !.size = @ + len]

\* bufput(buf, data, len), data being len bytes c
bufput_n(b, c, len, ok) ==
    LET g == IF b.size + len > b.asize THEN bufgrow(b, b.size + len, ok)
             ELSE [b EXCEPT !.ret = BUF_OK]
    IN IF g.ret # BUF_OK THEN g
       ELSE [g EXCEPT !.data = PutRun(@, c, len), !.size = @ + len]

\* bufputs(buf, str)
bufputs(b, str, ok) == bufput_n(b, str[1], Len(str), ok)

\* bufputc(buf, c)
bufputc(b, c, ok) ==
    LET g == IF b.size + 1 > b.asize THEN bufgrow(b, b.size + 1, ok)
             ELSE [b EXCEPT !.ret = BUF_OK]
    IN IF g.ret # BUF_OK THEN g
       ELSE [g EXCEPT !.data = PutRun(@, c, 1), !.size = @ + 1]

\* bufprintf(buf, fmt, ...), vsnprintf formatting to n bytes c, or failing
\* with n < 0
bufprintf(b, c, n, ok1, ok2) ==
    LET g1 == IF b.size >= b.asize THEN bufgrow(b, b.size + 1, ok1)
              ELSE [b EXCEPT !.ret = BUF_OK]
    IN IF g1.ret # BUF_OK THEN g1
       ELSE IF n < 0 THEN g1
       ELSE LET g2 == IF n >= g1.asize - g1.size THEN bufgrow(g1, g1.size + n + 1, ok2)
                      ELSE g1
            IN IF g2.ret # BUF_OK THEN g2
               ELSE [g2 EXCEPT !.data = PutRun(@, c, n), !.size = @ + n]

\* bufcstr(buf): ret is BUF_ENOMEM for a NULL result.  The byte read at
\* data[size] lies past the stored bytes; whatever it holds, the stored
\* bytes and the sizes end the same.
bufcstr(b, ok) ==
    IF b.size + 1 <= b.asize THEN [b EXCEPT !.ret = BUF_OK]
    ELSE bufgrow(b, b.size + 1, ok)

\* bufreset(buf)
bufreset(b) == [b EXCEPT !.data = << >>, !.asize = 0, !.size = 0, !.ret = BUF_OK]

\* bufslurp(buf, len)
bufslurp(b, len) ==
    IF len >= b.size THEN [b EXCEPT !.size = 0, !.data = << >>, !.ret = BUF_OK]
    ELSE [b EXCEPT !.size = @ - len, !.data = DropFront(@, len), !.ret = BUF_OK]

\* the inputs of the calls
Units == {1, 3, 64, BUFFER_MAX_ALLOC_SIZE}
GrowSizes == {1, 65, BUFFER_MAX_ALLOC_SIZE, BUFFER_MAX_ALLOC_SIZE + 1}
PutLens == {0, 2, 64, BUFFER_MAX_ALLOC_SIZE}
PrintLens == {0 - 1, 0, 3, 64}
SlurpLens == {1, 64}

\* one call on the buffer: the result, the call counted
Called(b) == buf' = [b EXCEPT !.ops = buf.ops + 1]

\* the buffer as a call finds it
Entry == [buf EXCEPT !.g_enomem = FALSE]

BufCanCall ==
    /\ pc = "buffer"
    /\ buf.ops < MaxBufOps
    /\ UNCHANGED <<pc, document, ext_flags, cb_absent, cb_decline, max_nesting,
                   alloc_fail, text, beg, md, options>>

BufGrow ==
    /\ BufCanCall
    /\ \E neosz \in GrowSizes, ok \in BOOLEAN : Called(bufgrow(Entry, neosz, ok))

BufPut ==
    /\ BufCanCall
    /\ \E len \in PutLens, ok \in BOOLEAN : Called(bufput_n(Entry, "x", len, ok))

BufPuts ==
    /\ BufCanCall
    /\ \E ok \in BOOLEAN : Called(bufputs(Entry, << "s", "s" >>, ok))

BufPutc ==
    /\ BufCanCall
    /\ \E ok \in BOOLEAN : Called(bufputc(Entry, "c", ok))

BufPrintf ==
    /\ BufCanCall
    /\ \E n \in PrintLens, ok1 \in BOOLEAN, ok2 \in BOOLEAN :
          Called(bufprintf(Entry, "f", n, ok1, ok2))

BufCstr ==
    /\ BufCanCall
    /\ \E ok \in BOOLEAN : Called(bufcstr(Entry, ok))

BufSlurp ==
    /\ BufCanCall
    /\ \E len \in SlurpLens : Called(bufslurp(Entry, len))

BufReset ==
    /\ BufCanCall
    /\ Called(bufreset(Entry))

NextBuf == BufGrow \/ BufPut \/ BufPuts \/ BufPutc \/ BufPrintf \/ BufCstr
           \/ BufSlurp \/ BufReset

InitBuf ==
    /\ pc = "buffer"
    /\ document = << >>
    /\ ext_flags = EXT_NONE
    /\ cb_absent = {}
    /\ cb_decline = {}
    /\ max_nesting = 16
    /\ alloc_fail = NoFail
    /\ beg = 0
    /\ text = << >>
    /\ md = sd_markdown_new
    /\ \E unit \in Units : buf = bufnew(unit)
    /\ options = NoHtml

SpecBuf == InitBuf /\ [][NextBuf]_vars

(***************************************************************************)
(* A renderer of html.c driven through its callbacks: at most MaxHtmlOps    *)
(* callbacks, then the outline callback when the renderer has one.          *)
(***************************************************************************)
MaxHtmlOps == 3

HeaderLevels == 1..6
HeaderText == << "t" >>
FootTexts ==
    { << "<", "p", ">", "x", "<", "/", "p", ">", NL >>,
      << "<", "p", ">", "x", "<", "/", "p", ">", "<", "p", ">", "y", "<", "/", "p", ">", NL >>,
      << "<", "h", "1", ">", "x", "<", "/", "h", "1", ">", NL >>,
      << "<", "<", "/", "p", ">", NL >> }
NormalTexts ==
    { << "a", "/", "b" >>, << "<", "&", ">" >>, << DQ, SQ, "c" >>, << "1", "/", "2", "<" >> }
RenderFlags == { {}, {HTML_OUTLINE}, {HTML_TOC}, {HTML_OUTLINE, HTML_TOC} }

HtmlCanCall ==
    /\ pc = "html"
    /\ options.ops < MaxHtmlOps
    /\ ~options.done
    /\ UNCHANGED <<pc, document, ext_flags, cb_absent, cb_decline, max_nesting,
                   alloc_fail, text, beg, md, buf>>

HtmlCalled(h, op, txt, num, ok) ==
    options' = [h EXCEPT !.ops = options.ops + 1,
                         !.g_last = [op |-> op, text |-> txt, num |-> num,
                                     from |-> Len(options.ob), ok |-> ok]]

\* the header callback of the renderer
HtmlHeader ==
    /\ HtmlCanCall
    /\ \E level \in HeaderLevels :
         HtmlCalled(IF options.renderer = "toc"
                    THEN toc_header(options, HeaderText, level, TRUE)
                    ELSE rndr_header(options, HeaderText, level),
                    "header", HeaderText, level, TRUE)

\* the footnote_def callback (the TOC renderer has none)
HtmlFootnoteDef ==
    /\ HtmlCanCall
    /\ options.renderer = "html"
    /\ \E txt \in FootTexts, num \in 1..2 :
         HtmlCalled(rndr_footnote_def(options, txt, num), "footnote_def", txt, num, TRUE)

\* the normal_text callback (the TOC renderer has none)
HtmlNormalText ==
    /\ HtmlCanCall
    /\ options.renderer = "html"
    /\ \E txt \in NormalTexts, ok \in BOOLEAN :
         HtmlCalled(rndr_normal_text(options, txt, ok), "normal_text", txt, 0, ok)

\* the outline callback: toc_finalize for the TOC renderer, rndr_finalize
\* when HTML_OUTLINE is set, none otherwise
HtmlOutline ==
    /\ pc = "html"
    /\ ~options.done
    /\ options.renderer = "toc" \/ HTML_OUTLINE \in options.flags
    /\ options' = [(IF options.renderer = "toc" THEN toc_finalize(options)
                    ELSE rndr_finalize(options))
                     EXCEPT !.done = TRUE,
                            !.g_last = [op |-> "outline", text |-> << >>, num |-> 0,
                                        from |-> Len(options.ob), ok |-> TRUE]]
    /\ UNCHANGED <<pc, document, ext_flags, cb_absent, cb_decline, max_nesting,
                   alloc_fail, text, beg, md, buf>>

NextHtml ==
    \/ HtmlHeader
    \/ HtmlFootnoteDef
    \/ HtmlNormalText
    \/ HtmlOutline

InitHtml ==
    /\ pc = "html"
    /\ document = << >>
    /\ ext_flags = EXT_NONE
    /\ cb_absent = {}
    /\ cb_decline = {}
    /\ max_nesting = 16
    /\ alloc_fail = NoFail
    /\ beg = 0
    /\ text = << >>
    /\ md = sd_markdown_new
    /\ buf = NoBuf
    /\ options \in {sdhtml_renderer(f) : f \in RenderFlags} \cup {sdhtml_toc_renderer}

SpecHtml == InitHtml /\ [][NextHtml]_vars

(***************************************************************************)
(* The two pools of a fresh parser driven through rndr_newbuf and           *)
(* rndr_popbuf, last in first out, with writes to the buffer on top;        *)
(* every allocation succeeds.                                              *)
(***************************************************************************)
MaxPoolSize == 5
MaxSpanSize == 2

PoolTypes == {BUFFER_BLOCK, BUFFER_SPAN}
PoolLimit(type) == IF type = BUFFER_BLOCK THEN MaxPoolSize ELSE MaxSpanSize

\* the buffers in use: the slots below the size of either pool
InUse(st) ==
    UNION {{st.work_bufs[t].item[k] : k \in 1..st.work_bufs[t].size} : t \in PoolTypes}

PoolUnchanged ==
    UNCHANGED <<pc, document, ext_flags, cb_absent, cb_decline, max_nesting,
                alloc_fail, text, beg, buf, options>>

PoolNew ==
    /\ pc = "pool"
    /\ \E type \in PoolTypes :
         /\ md.work_bufs[type].size < PoolLimit(type)
         /\ md' = rndr_newbuf(md, type)
    /\ PoolUnchanged

PoolPop ==
    /\ pc = "pool"
    /\ \E type \in PoolTypes :
         /\ md.work_bufs[type].size > 0
         /\ md' = rndr_popbuf(md, type)
    /\ PoolUnchanged

\* bufput on the buffer on top of a pool
PoolWrite ==
    /\ pc = "pool"
    /\ \E type \in PoolTypes :
         /\ md.work_bufs[type].size > 0
         /\ md.bufsize[md.work_bufs[type].item[md.work_bufs[type].size]] = 0
         /\ md' = [md EXCEPT !.bufsize[md.work_bufs[type].item[md.work_bufs[type].size]] = 1]
    /\ PoolUnchanged

NextPool ==
    \/ PoolNew
    \/ PoolPop
    \/ PoolWrite

InitPool ==
    /\ pc = "pool"
    /\ document = << >>
    /\ ext_flags = EXT_NONE
    /\ cb_absent = {}
    /\ cb_decline = {}
    /\ max_nesting = 16
    /\ alloc_fail = NoFail
    /\ beg = 0
    /\ text = << >>
    /\ md = sd_markdown_new
    /\ buf = NoBuf
    /\ options = NoHtml

SpecPool == InitPool /\ [][NextPool]_vars

\* how many pieces of ob are in the set ps
Pieces(ob, ps) == Cardinality({k \in 1..Len(ob) : ob[k] \in ps})

\* what the last callback wrote
Written == SubSeq(options.ob, options.g_last.from + 1, Len(options.ob))

(***************************************************************************)
(* The properties.                                                         *)
(***************************************************************************)
Finished == pc \in {"done", "abort"}

NoAllocFailure == alloc_fail.at = 0

PoolsEmpty ==
    /\ md.work_bufs[BUFFER_BLOCK].size = 0
    /\ md.work_bufs[BUFFER_SPAN].size = 0

\* C1: when no allocation fails, both work-buffer pools have size 0 when
\* sd_markdown_render reaches its closing asserts and when it returns, so
\* neither assert aborts.
C1_PoolsEmptyAtReturn ==
    (NoAllocFailure /\ pc \in {"cleanup", "done", "abort"})
        => (PoolsEmpty /\ pc # "abort")

\* a render that took buffers from both pools, for a link among others, ends
C1_Witness ==
    /\ pc = "done"
    /\ NoAllocFailure
    /\ md.nalloc >= 3
    /\ {"link", "paragraph"} \subseteq md.g_calls
    /\ PoolsEmpty

\* C2: with allocations succeeding, every iteration of the loop of
\* parse_block and of the loop of parse_inline moves the read position
\* forward: no block rule returns 0 and no handler leaves the scan where it
\* was, so the render never spins.
C2_EveryIterationAdvances ==
    NoAllocFailure => (~md.g_spin /\ pc # "hung")

\* a render with an emphasis and a link, in which a handler returned 0, ran
\* to its end
C2_Witness ==
    /\ pc = "done"
    /\ NoAllocFailure
    /\ {"emphasis", "link"} \subseteq md.g_calls
    /\ md.g_ret0

\* C3 (as the specification states it): when a bufnew() of rndr_newbuf
\* fails, the render neither spins nor ends with a pool size other than 0.
C3_CleanReturnOnAllocFailure ==
    ~NoAllocFailure => /\ pc # "hung"
                       /\ Finished => (PoolsEmpty /\ pc # "abort")

\* C4: parse_block and parse_inline entered with more than max_nesting
\* buffers in use write nothing and invoke no callback, and no descent
\* starts from a pool depth above max_nesting.
C4_GuardWritesNothing ==
    /\ ~md.g_guardwrote
    /\ md.g_maxdesc <= max_nesting

\* the guard tripped during a render that ended
C4_Witness ==
    /\ pc = "done"
    /\ md.g_tripped
    /\ md.g_maxdesc = max_nesting

\* C5 (as the specification states it): when the nesting guard trips, the
\* text of the construct still reaches the output: every letter or digit of
\* the text being rendered occurs in the output at the end of the render.
C5_TextSurvivesGuard ==
    (md.g_tripped /\ pc = "cleanup")
        => \A k \in 1..Len(text) :
              isalnum(text[k]) => \E j \in 1..Len(md.ob) : md.ob[j] = text[k]

\* C6 (as the specification states it): while the text of a link is parsed
\* inline, in_link_body is set at every dispatch and no bare-autolink
\* handler reaches the link or autolink callback.
C6_NoAutolinkInLinkText ==
    /\ ~md.g_autoinlink
    /\ ~md.g_ilboff

\* the registrations, in document order, of the id of a resolved reference
DefsOf(id) == { k \in 1..Len(md.g_defs) : md.g_defs[k].id = id }

\* C7: a reference-style link resolves to the definition of its id that
\* comes last in document order (its link and its title).
C7_LastDefinitionWins ==
    \A k \in 1..Len(md.g_resolved) :
        LET r == md.g_resolved[k]
        IN /\ DefsOf(r.id) # {}
           /\ \A m \in DefsOf(r.id) :
                 (\A n \in DefsOf(r.id) : n <= m) => md.g_defs[m] = r

\* C7 (as the specification states it): it resolves to the first definition.
C7_FirstDefinitionWins ==
    \A k \in 1..Len(md.g_resolved) :
        LET r == md.g_resolved[k]
        IN /\ DefsOf(r.id) # {}
           /\ \A m \in DefsOf(r.id) :
                 (\A n \in DefsOf(r.id) : n >= m) => md.g_defs[m] = r

\* a reference whose id is defined twice, with different links, resolved
C7_Witness ==
    /\ pc = "done"
    /\ \E k \in 1..Len(md.g_resolved) :
          \E m, n \in DefsOf(md.g_resolved[k].id) :
              m < n /\ md.g_defs[m].link # md.g_defs[n].link

RECURSIVE pass1_all(_, _, _)
\* the parser after the whole first pass over doc, from position bg
pass1_all(doc, bg, st) ==
    IF bg >= Len(doc) THEN st
    ELSE LET l == Call("pass1_line", << doc, bg, st, << >> >>)
         IN pass1_all(doc, l.beg, l.md)

\* what a footnote definition registers: its id and its contents
FootnoteDefs(found) ==
    [k \in 1..Len(found) |-> [id |-> found[k].id, contents |-> found[k].contents]]

\* C8: from the first callback until clean-up, the tables hold every link
\* reference and every footnote definition of the document, no more and no
\* less.
C8_TablesCompleteBeforeCallbacks ==
    ((md.ncb > 0 \/ pc # "pass1") /\ ~Finished)
        => LET all == pass1_all(document, FirstBeg(document), sd_markdown_new)
           IN /\ md.refs = all.refs
              /\ FootnoteDefs(md.found) = FootnoteDefs(all.found)

\* a reference whose definition comes after its use was resolved, and the
\* render is about to clean up
C8_Witness ==
    /\ pc = "cleanup"
    /\ Len(md.g_resolved) > 0
    /\ ~Call("is_ref", << document, FirstBeg(document), Len(document) >>).ok
    /\ md.ncb > 0

\* C9 (as the specification states it): a handler whose span callback
\* declined returns 0 and leaves the output buffer as it found it.
C9_DeclinedCallbackLeavesNoTrace ==
    md.g_dirty = {}

\* C10: in parse_inline the inactive runs and the spans the handlers report
\* as consumed tile the slice, and no byte is dispatched twice.
C10_EveryByteOnce ==
    /\ ~md.g_acct_bad
    /\ ~md.g_redispatch

\* a render in which a handler returned 0, a handler returned n > 0, and
\* char_escape reported more than the slice held
C10_Witness ==
    /\ pc = "done"
    /\ md.g_ret0
    /\ md.g_retn
    /\ md.g_over

\* C11: the used footnotes carry the ordinals 1, 2, ..., k in list order,
\* none is listed twice, every footnote_ref callback for one footnote gets
\* that footnote's ordinal, and footnote_def is invoked once per used
\* footnote, in increasing ordinal order, by the time the list is rendered.
C11_FootnoteOrdinals ==
    (NoAllocFailure /\ ~Finished) =>
        /\ \A k \in 1..Len(md.used) :
              /\ md.found[md.used[k]].is_used
              /\ md.found[md.used[k]].num = k
              /\ \A j \in 1..Len(md.used) : md.used[j] = md.used[k] => j = k
        /\ \A f \in 1..Len(md.found) :
              md.found[f].is_used => \E k \in 1..Len(md.used) : md.used[k] = f
        /\ \A r \in 1..Len(md.g_fnrefs) :
              md.g_fnrefs[r].num = md.found[md.g_fnrefs[r].fr].num
        /\ \A k \in 1..Len(md.g_fndefs) : md.g_fndefs[k] = k
        /\ Len(md.g_fndefs) <= Len(md.used)
        /\ (pc \in {"footer", "outline", "cleanup"} /\ has_cb("footnote_def")
              /\ "footnotes" \in ext_flags)
             => Len(md.g_fndefs) = Len(md.used)

\* two footnotes were used, the second first referenced from the body of the
\* first while the list was rendered, one footnote was referenced twice,
\* and both definitions were rendered
C11_Witness ==
    /\ pc = "cleanup"
    /\ Len(md.used) = 2
    /\ md.g_fndefs = << 1, 2 >>
    /\ \E a, b \in 1..Len(md.g_fnrefs) :
          /\ a < b
          /\ md.g_fnrefs[a].fr = md.g_fnrefs[b].fr
          /\ \E c \in (a + 1)..(b - 1) : md.g_fnrefs[c].num = 2
    /\ md.ob[Len(md.ob)] = "</outline>"

RECURSIVE pass1_text(_, _, _, _)
\* the first pass of sd_markdown_render over doc from position bg: the
\* parser and the staging buffer after it
pass1_text(doc, bg, st, txt) ==
    IF bg >= Len(doc) THEN [md |-> st, text |-> txt]
    ELSE LET Rest(l) == pass1_text(doc, l.beg, l.md, l.text)
         IN Rest(Call("pass1_line", << doc, bg, st, txt >>))

\* sd_markdown_render(ob, document, doc_size, md) as one function: the
\* parser, with the output buffer, when the render reaches its clean-up
sd_markdown_render(doc) ==
    LET Outlined(st) ==
            IF has_cb("outline") THEN CallVoid(st, "outline", << >>) ELSE st
        Footed(st) ==
            Outlined(IF has_cb("doc_footer") THEN CallVoid(st, "doc_footer", << >>)
                     ELSE st)
        Noted(st) ==
            Footed(IF "footnotes" \in ext_flags THEN Call("parse_footnote_list", << st >>)
                   ELSE st)
        Body(st, txt) ==
            Noted(IF Len(txt) > 0 THEN Call("parse_block", << st, txt, 0, Len(txt) >>)
                  ELSE st)
        Headed(st, txt) ==
            Body(IF has_cb("doc_header") THEN CallVoid(st, "doc_header", << >>) ELSE st,
                 IF Len(txt) > 0 /\ txt[Len(txt)] \notin {NL, CR}
                 THEN Append(txt, NL) ELSE txt)
        Staged(l) == Headed(l.md, l.text)
    IN Staged(pass1_text(doc, FirstBeg(doc), sd_markdown_new, << >>))

\* C12 (as the specification states it): a document and the same document
\* followed by one more "\n" render to the same bytes.
C12_TrailingNewlineNeutral ==
    (pc = "cleanup" /\ NoAllocFailure)
        => md.ob = sd_markdown_render(document \o << NL >>).ob

\* the render in steps and the render as one function agree
RenderAgrees ==
    (pc = "cleanup" /\ NoAllocFailure) => md.ob = sd_markdown_render(document).ob

\* the place of a kind of callback in the order of a render
LifeRank(e) ==
    CASE e = "doc_header" -> 1
      [] e = "body" -> 2
      [] e = "footnotes" -> 3
      [] e = "doc_footer" -> 4
      [] e = "outline" -> 5

C14_EmptyInputNoBody ==
    document \in { << >>, UTF8_BOM }
        => /\ md.g_calls \subseteq {"doc_header", "doc_footer", "outline"}
           /\ ~md.g_pblock
           /\ text = << >>
           /\ \A k \in 1..Len(md.g_life) :
                 md.g_life[k] \in {"doc_header", "doc_footer", "outline"}
           /\ md.ncb = Len(md.g_life)

\* the render of a document that is only the byte order mark ended, with
\* the three lifecycle callbacks invoked
C14_Witness ==
    /\ pc = "done"
    /\ document = UTF8_BOM
    /\ md.g_calls = {"doc_header", "doc_footer", "outline"}
    /\ md.ob = << "<doc_header>", "</doc_header>", "<doc_footer>", "</doc_footer>",
                  "<outline>", "</outline>" >>

\* C15: a buffer made by bufnew with a unit above 0 keeps size <= asize,
\* asize a multiple of unit and exactly size stored bytes through every
\* call of buffer.c, and a call in which bufgrow failed leaves size and the
\* stored bytes as they were.
C15_SizeWithinAsize ==
    /\ [](buf.unit > 0 => /\ buf.size <= buf.asize
                          /\ buf.asize % buf.unit = 0
                          /\ RunsLen(buf.data) = buf.size)
    /\ [][buf'.g_enomem => (buf'.size = buf.size /\ buf'.data = buf.data)]_vars

\* a buffer grew, took bytes, and then a call on it failed to grow
C15_Witness ==
    /\ pc = "buffer"
    /\ buf.g_enomem
    /\ buf.size > 0
    /\ buf.asize > buf.size
    /\ buf.ops = MaxBufOps

\* C16 (as the specification states it): no buffer's allocated size exceeds
\* BUFFER_MAX_ALLOC_SIZE, whatever its unit.
C16_AllocWithinCap ==
    buf.asize <= BUFFER_MAX_ALLOC_SIZE

\* the line terminators of doc at the 0-based positions a .. b - 1: every
\* "\n", and every "\r" that no "\n" follows (a "\r\n" pair counts once)
Terminators(doc, a, b) ==
    Cardinality({ k \in a..(b - 1) :
                    \/ B(doc, k) = NL
                    \/ B(doc, k) = CR /\ ~(k + 1 < Len(doc) /\ B(doc, k + 1) = NL) })

\* the number of elements of s equal to c
CountOf(s, c) == Cardinality({ k \in 1..Len(s) : s[k] = c })

\* C17 (as the specification states it): in the first pass, when every
\* line so far was copied to the staging buffer, the buffer holds one "\n"
\* for each line terminator read, a "\r" that ends the input included, and
\* it holds no "\r" and no tab.
C17_OneNewlinePerTerminator ==
    (pc = "pass1" /\ md.g_defs = << >> /\ md.found = << >>)
        => /\ CountOf(text, NL) = Terminators(document, FirstBeg(document), beg)
           /\ CountOf(text, CR) = 0
           /\ CountOf(text, TAB) = 0

\* C18: every iteration of the loop of parse_block applies one rule, the
\* first in the order ATX header, HTML block, empty line, horizontal rule,
\* fenced code, table, blockquote, indented code, unordered list, ordered
\* list, paragraph whose condition holds on the line, and the rules tried
\* before it leave the output as it was and invoke no callback.
C18_FirstMatchingRule ==
    /\ ~md.g_rulebad
    /\ (NoAllocFailure /\ md.g_hrlist) => "hrule" \in md.g_calls

\* a line that prefix_uli accepts was rendered as a horizontal rule, and
\* the render went on to a list
C18_Witness ==
    /\ pc = "done"
    /\ md.g_hrlist
    /\ {"hrule", "ulist"} \subseteq md.g_rules
    /\ {"hrule", "list"} \subseteq md.g_calls

\* C19 (as the specification states it): a line that begins with a list
\* marker between the opening and the closing fence of a list item is
\* copied into the body of the item; the item never ends at it.
C19_NoMarkerInsideFence ==
    md.g_fencemark \subseteq {"copied"}

\* C20 (as the specification states it): without MKDEXT_LAX_SPACING a
\* paragraph ends only at the end of its data, at an empty line or at a
\* setext underline.
C20_OnlyEmptyOrSetext ==
    "lax_spacing" \notin ext_flags => md.g_paraend \subseteq {"size", "empty", "setext"}

\* C20 (amended): a paragraph never runs past an empty line, a setext
\* underline, an ATX header, a horizontal rule or a quoted line, whatever
\* the extension flags; a list item, an HTML block or a code fence ends it
\* only when MKDEXT_LAX_SPACING is set.
C20_OpenersEndParagraph ==
    /\ ~md.g_parabad
    /\ "lax" \in md.g_paraend => "lax_spacing" \in ext_flags

\* a paragraph followed at once by an ATX header, both rendered, with
\* MKDEXT_LAX_SPACING off
C20_Witness ==
    /\ pc = "done"
    /\ "lax_spacing" \notin ext_flags
    /\ NoAllocFailure
    /\ "opener" \in md.g_paraend
    /\ document = << "a", NL, "#", SP, "e", NL >>
    /\ {"paragraph", "header"} \subseteq md.g_calls

\* C21 (as the specification states it): the delimiter that closes a
\* single-emphasis span is never one that immediately follows a backslash.
C21_EscapedDelimiterSkipped ==
    ~md.g_escclose

\* C22 (as the specification states it): with MKDEXT_NO_INTRA_EMPHASIS an
\* emphasis opener is rejected exactly when the byte before it is
\* alphanumeric.
C22_RejectedIffAfterAlnum ==
    \A e \in md.g_intra : e[1] = e[2]

\* C23 (as the specification states it): the run of backticks that closes
\* a code span has exactly as many backticks as the run that opened it; it
\* is never the head of a longer run.
C23_ClosedByExactRun ==
    ~md.g_longclose

\* C24 (as the specification states it): with the tables extension an
\* underline row is accepted as the header separator whenever each of its
\* cells is an optional ":", one or more "-" and an optional ":".
C24_OneDashSuffices ==
    \A g \in md.g_under : g[1] => g[2]

\* C25: in outline mode open_section_count is never negative, and once the
\* outline callback has run the output holds as many "</section>" as
\* "<section ...>".
C25_SectionsBalanced ==
    (options.renderer = "html" /\ HTML_OUTLINE \in options.flags) =>
        /\ \A n \in options.g_sections : n >= 0
        /\ options.outline_data.open_section_count >= 0
        /\ options.done =>
              Pieces(options.ob, {"<section class=\"section"})
                = Pieces(options.ob, {"</section>", "\n</section>\n"})

\* three headers, one of which closed the section before it, and two
\* sections left for the outline callback to close
C25_Witness ==
    /\ pc = "html"
    /\ options.renderer = "html" /\ HTML_OUTLINE \in options.flags
    /\ options.done
    /\ Pieces(options.ob, {"<section class=\"section"}) = 3
    /\ Pieces(options.ob, {"</section>"}) = 1
    /\ Pieces(options.ob, {"\n</section>\n"}) = 2

\* the "<ul>", "<li>", "</li>" and "</ul>" of a piece the TOC renderer
\* writes, in order
TocTags(piece) ==
    CASE piece = "<ul>\n<li>\n" -> << "+ul", "+li" >>
      [] piece = "</li>\n" -> << "-li" >>
      [] piece = "</ul>\n</li>\n" -> << "-ul", "-li" >>
      [] piece = "<li>\n" -> << "+li" >>
      [] piece = "</li>\n<li>\n" -> << "-li", "+li" >>
      [] piece = "</li>\n</ul>\n" -> << "-li", "-ul" >>
      [] OTHER -> << >>

RECURSIVE TocTagsOf(_)
TocTagsOf(ob) ==
    IF ob = << >> THEN << >> ELSE TocTags(Head(ob)) \o TocTagsOf(Tail(ob))

\* C26 (as the specification states it): the list markup of the TOC
\* renderer is well nested: current_level is never negative, in every
\* prefix of the output the closes of "ul" and of "li" do not outnumber
\* their opens, and after toc_finalize they are equal in number.
C26_TocWellNested ==
    options.renderer = "toc" =>
        LET tags == TocTagsOf(options.ob)
            n(t, k) == Cardinality({m \in 1..k : tags[m] = t})
        IN /\ \A l \in options.g_levels : l >= 0
           /\ options.toc_data.current_level >= 0
           /\ \A k \in 1..Len(tags) : /\ n("-ul", k) <= n("+ul", k)
                                       /\ n("-li", k) <= n("+li", k)
           /\ options.done => /\ n("-ul", Len(tags)) = n("+ul", Len(tags))
                              /\ n("-li", Len(tags)) = n("+li", Len(tags))

\* the index of the first "</p>" of txt, 0 when it has none
FirstCloseP(txt) ==
    LET at(k) == txt[k] = "<" /\ txt[k + 1] = "/" /\ txt[k + 2] = "p" /\ txt[k + 3] = ">"
        ks == {k \in 1..(Len(txt) - 3) : at(k)}
    IN IF ks = {} THEN 0 ELSE CHOOSE k \in ks : \A m \in ks : k <= m

\* C27 (as the specification states it): rndr_footnote_def writes the
\* back-reference once, before the first "</p>" of the text when it has
\* one and at the end of the text otherwise.
C27_BackReferenceOnce ==
    options.g_last.op = "footnote_def" =>
        LET txt == options.g_last.text
            num == options.g_last.num
            k == FirstCloseP(txt)
            body == IF k # 0
                    THEN SubSeq(txt, 1, k - 1) \o FootnoteAnchor(num) \o SubSeq(txt, k, Len(txt))
                    ELSE txt \o FootnoteAnchor(num)
        IN Written = << "\n<li id=\"fn", ToString(num), "\">\n" >> \o body \o << "</li>\n" >>

\* C28 (as the specification states it): normal_text escapes body text in
\* secure mode, so that every "/" of the text is written as its entity.
C28_SlashEscapedInBody ==
    (options.g_last.op = "normal_text" /\ options.g_last.ok) =>
        Written = [k \in 1..Len(options.g_last.text) |-> HTML_ESCAPES(options.g_last.text[k])]

\* C29: with allocations succeeding, every slot below the size of a pool
\* holds a buffer, the buffers in use are all different, and the number of
\* buffers allocated is the sum of the highest sizes the pools have
\* reached; the buffer a rndr_newbuf returns has size 0, is none of the
\* buffers in use before the call, and below the highest size it is the
\* buffer popped at that depth, not a new allocation.
C29_PoolReuse ==
    /\ [](/\ \A t \in PoolTypes : \A k \in 1..md.work_bufs[t].size :
                  md.work_bufs[t].item[k] # 0
          /\ Cardinality(InUse(md))
               = md.work_bufs[BUFFER_BLOCK].size + md.work_bufs[BUFFER_SPAN].size
          /\ md.nalloc = md.g_hw[BUFFER_BLOCK] + md.g_hw[BUFFER_SPAN])
    /\ [][\A t \in PoolTypes :
            md'.work_bufs[t].size = md.work_bufs[t].size + 1 =>
              LET got == md'.work_bufs[t].item[md'.work_bufs[t].size]
              IN /\ md'.bufsize[got] = 0
                 /\ got \notin InUse(md)
                 /\ md.work_bufs[t].size < md.g_hw[t] =>
                      /\ md'.nalloc = md.nalloc
                      /\ got = md.work_bufs[t].item[md.work_bufs[t].size + 1]]_vars

\* the block pool has grown past its initial four slots, buffers written
\* to have been popped, and one of them is in use again, empty
C29_Witness ==
    /\ pc = "pool"
    /\ md.g_hw[BUFFER_BLOCK] = MaxPoolSize
    /\ md.work_bufs[BUFFER_BLOCK].asize > BLOCK_POOL_INIT
    /\ md.work_bufs[BUFFER_BLOCK].size = 2
    /\ md.nalloc = MaxPoolSize
    /\ md.bufsize[md.work_bufs[BUFFER_BLOCK].item[2]] = 0
    /\ md.bufsize[md.work_bufs[BUFFER_BLOCK].item[3]] = 1

\* C30: at every point of a render the two pools together hold at most
\* max_nesting + 4 buffers in use.
C30_PoolDepthBounded ==
    md.g_maxdepth <= max_nesting + 4

\* a table inside a block quote with max_nesting = 1: the cell of a row is
\* rendered with five buffers in use
C30_Witness ==
    /\ pc = "done"
    /\ NoAllocFailure
    /\ max_nesting = 1
    /\ md.g_maxdepth = max_nesting + 4
    /\ md.g_tripped
    /\ {"blockquote", "table", "table_cell"} \subseteq md.g_calls

====
